---- MODULE Spec2Model ----
(***************************************************************************)
(* State-machine model of the Flask signal-analysis backend                *)
(* (Backend/blueprints/voice_aliasing.py, drone.py, doppler.py).           *)
(*                                                                         *)
(* Every HTTP handler is one atomic action: it reads the request, runs the *)
(* resample / aliasing-metadata / playback pipeline of its blueprint and   *)
(* leaves its JSON response in `resp`.                                     *)
(*                                                                         *)
(* Numbers.  Sampling rates and buffer lengths are integers.  An audio     *)
(* sample is a record: a finite value in fixed point (v / Scale), NaN or   *)
(* +/-Inf.  The length arithmetic int(len * (target / original)) is        *)
(* modelled bit-exactly for IEEE-754 doubles (TruncMulDiv).                *)
(***************************************************************************)
EXTENDS Integers, Sequences, FiniteSets, TLC

(***************************************************************************)
(* Bounds of the model                                                     *)
(***************************************************************************)
\* longest decoded upload, in samples
MaxLen == 2
\* longest buffer of the length-arithmetic specification
MaxCalcLen == 9

(***************************************************************************)
(* State: the request being handled and its response, the two facts fixed  *)
(* when the process starts, and the state of the length calculation.       *)
(* files is the directory of temporary files (path -> content) and proc    *)
(* the position of each request thread; they move in SpecFiles, where the  *)
(* handlers run step by step and side by side.                             *)
(* ecg and eeg are the module-level caches of ecg.py and eeg.py.           *)
(***************************************************************************)
VARIABLES req, resp, doppler_available, nan_cast, calc, files, proc, ecg, eeg

(***************************************************************************)
(* Integer helpers                                                         *)
(***************************************************************************)
Abs(x) == IF x < 0 THEN -x ELSE x

Sign(x) == IF x < 0 THEN -1 ELSE IF x > 0 THEN 1 ELSE 0

Min(a, b) == IF a < b THEN a ELSE b

Max(a, b) == IF a > b THEN a ELSE b

\* quotient truncated toward zero, as a C / numpy float-to-int conversion does
TruncDiv(a, b) == Sign(a) * (Abs(a) \div b)

\* quotient rounded to nearest, ties to even, as Python's and numpy's round do
RoundDiv(a, b) ==
    LET q == Abs(a) \div b
        r == Abs(a) % b
        up == 2 * r > b \/ (2 * r = b /\ q % 2 = 1)
    IN  Sign(a) * (IF up THEN q + 1 ELSE q)

RECURSIVE Pow2(_)
Pow2(n) == IF n <= 0 THEN 1 ELSE 2 * Pow2(n - 1)

\* number of bits of x >= 0 (0 for 0)
RECURSIVE BitLen(_)
BitLen(x) == IF x <= 0 THEN 0 ELSE 1 + BitLen(x \div 2)

RECURSIVE ISqrtFrom(_, _, _)
ISqrtFrom(n, lo, hi) ==
    IF lo >= hi THEN lo
    ELSE LET mid == (lo + hi + 1) \div 2
         IN  IF mid * mid <= n THEN ISqrtFrom(n, mid, hi)
             ELSE ISqrtFrom(n, lo, mid - 1)

\* floor of the square root of n >= 0
ISqrt(n) == ISqrtFrom(n, 0, Min(n, 46340))

(***************************************************************************)
(* IEEE-754 double arithmetic of the length computations.                  *)
(*                                                                         *)
(* TruncMulDiv(a, b, o) is int((a / o) * b) as Python evaluates it on      *)
(* doubles, for integers a, b >= 0, o > 0 with a * b < 2^31: the quotient  *)
(* a / o is rounded to 53 bits (round to nearest, ties to even), the       *)
(* product is rounded again, and int() truncates.  When o does not divide  *)
(* a * b the rounding errors (below 2^-20) cannot move the product across  *)
(* an integer.  When it does, the exact product is the integer q, and the  *)
(* double product is q or just below q: it is below q when a / o was       *)
(* rounded down and the second rounding does not round back up to q.       *)
(***************************************************************************)
\* the divisor aligned so that a / den is in [1, 2) or a < den = o
RECURSIVE AlignDen(_, _)
AlignDen(a, den) == IF 2 * den <= a THEN AlignDen(a, 2 * den) ELSE den

RECURSIVE AlignNum(_, _)
AlignNum(num, den) == IF num < den THEN AlignNum(2 * num, den) ELSE num

\* binary exponent k of a / o: 2^k <= a / o < 2^(k+1)
RECURSIVE Exponent(_, _)
Exponent(a, o) ==
    IF 2 * o <= a THEN 1 + Exponent(a, 2 * o)
    ELSE IF a < o THEN Exponent(2 * a, o) - 1
    ELSE 0

\* long division: <<remainder, last quotient bit>> after n more mantissa bits
RECURSIVE MantissaRem(_, _, _, _)
MantissaRem(r, bit, den, n) ==
    IF n = 0 THEN <<r, bit>>
    ELSE IF 2 * r >= den THEN MantissaRem(2 * r - den, 1, den, n - 1)
    ELSE MantissaRem(2 * r, 0, den, n - 1)

TruncMulDiv(a, b, o) ==
    IF a = 0 \/ b = 0 THEN 0
    ELSE
    LET q == (a * b) \div o
        den == AlignDen(a, o)
        num == AlignNum(a, den)
        k == Exponent(a, o)
        rb == MantissaRem(num - den, 1, den, 52)
        R == rb[1]
        roundedUp == 2 * R > den \/ (2 * R = den /\ rb[2] = 1)
        h == BitLen(q - 1)
        s == k + 2 - h
        backToQ == IF s >= 0 THEN R <= (den \div Pow2(s)) \div b
                   ELSE R <= (den * Pow2(-s)) \div b
    IN  IF (a * b) % o /= 0 THEN q
        ELSE IF R = 0 \/ roundedUp THEN q
        ELSE IF backToQ THEN q
        ELSE q - 1

NewLengthByFactor_Rounded(len, target, original) ==
    RoundDiv(len * target, original)

\* voice_aliasing.py and doppler.py: int(len(audio_data) * (target / original))
NewLengthByFactor(len, target, original) == TruncMulDiv(target, len, original)

\* drone.py: duration = len / original_sr; int(duration * target_sr)
NewLengthByDuration(len, target, original) == TruncMulDiv(len, target, original)

(***************************************************************************)
(* Audio samples.  numpy float64 values: a finite value v / Scale, NaN, or *)
(* an infinity (v is its sign).                                            *)
(***************************************************************************)
\* fixed-point resolution of a finite sample: v stands for v / Scale
Scale == 10 * 100

Fin(v) == [cls |-> "fin", v |-> v]

NaN == [cls |-> "nan", v |-> 0]

PosInf == [cls |-> "inf", v |-> 1]

NegInf == [cls |-> "inf", v |-> -1]

HasNaN(buf) == \E i \in DOMAIN buf : buf[i].cls = "nan"

HasInf(buf) == \E i \in DOMAIN buf : buf[i].cls = "inf"

HasNonFinite(buf) == \E i \in DOMAIN buf : buf[i].cls /= "fin"

\* np.clip on one element: NaN stays NaN, an infinity goes to the bound
ClipSample(s, lo, hi) ==
    IF s.cls = "nan" THEN s
    ELSE IF s.cls = "inf" THEN Fin(IF s.v > 0 THEN hi ELSE lo)
    ELSE Fin(Max(lo, Min(hi, s.v)))

\* np.clip(audio, lo / Scale, hi / Scale)
Clip(buf, lo, hi) == [i \in DOMAIN buf |-> ClipSample(buf[i], lo, hi)]

\* sum of x[i]^2 for lo <= i <= hi (halving keeps the recursion shallow)
RECURSIVE SumSqRange(_, _, _)
SumSqRange(buf, lo, hi) ==
    IF lo > hi THEN 0
    ELSE IF lo = hi THEN buf[lo].v * buf[lo].v
    ELSE LET mid == (lo + hi) \div 2
         IN  SumSqRange(buf, lo, mid) + SumSqRange(buf, mid + 1, hi)

SumSq(buf) == SumSqRange(buf, 1, Len(buf))

\* target_rms = 0.3
TargetRms == (3 * Scale) \div 10

RmsNormalize_NoZeroGuard(buf) ==
    IF buf = <<>> \/ HasNaN(buf) THEN buf
    ELSE IF HasInf(buf)
        THEN [i \in DOMAIN buf |-> IF buf[i].cls = "inf" THEN NaN ELSE Fin(0)]
    ELSE LET sumsq == SumSq(buf)
             rms10 == IF sumsq <= 20000000
                          THEN Max(1, ISqrt((100 * sumsq) \div Len(buf)))
                          ELSE 10 * ISqrt(sumsq \div Len(buf))
         IN  IF sumsq = 0 THEN [i \in DOMAIN buf |-> NaN]
             ELSE [i \in DOMAIN buf |->
                      Fin(RoundDiv(10 * TargetRms * buf[i].v, rms10))]

\* rms = np.sqrt(np.mean(x**2)); if rms > 0: x = x * (target_rms / rms).
\* The mean of an empty buffer and any NaN sample make rms NaN, and NaN > 0 is
\* False; an infinite sample makes rms infinite and the factor 0.
\* The rms is kept to 1 / (10 * Scale).
RmsNormalize(buf) ==
    IF buf = <<>> \/ HasNaN(buf) THEN buf
    ELSE IF HasInf(buf)
        THEN [i \in DOMAIN buf |-> IF buf[i].cls = "inf" THEN NaN ELSE Fin(0)]
    ELSE LET sumsq == SumSq(buf)
             rms10 == IF sumsq <= 20000000
                          THEN Max(1, ISqrt((100 * sumsq) \div Len(buf)))
                          ELSE 10 * ISqrt(sumsq \div Len(buf))
         IN  IF sumsq = 0 THEN buf
             ELSE [i \in DOMAIN buf |->
                      Fin(RoundDiv(10 * TargetRms * buf[i].v, rms10))]

\* np.exp is computed to 1 / ExpScale, finer than the samples, so that the
\* rounding of the model never reorders two neighbouring samples
ExpScale == Scale * Scale

\* e^-1 in 1 / ExpScale
ExpNeg1 == 367879

RECURSIVE ExpSeries(_, _, _, _)
\* the terms k, k+1, ... of the alternating series of e^-y, 0 <= y < Scale
ExpSeries(y, term, k, sgn) ==
    IF term = 0 \/ k > 14 THEN 0
    ELSE sgn * term + ExpSeries(y, RoundDiv(term * y, Scale * (k + 1)), k + 1, -sgn)

\* a * b / ExpScale for 0 <= a, b <= ExpScale, within 32 bits
MulExp(a, b) ==
    RoundDiv((a \div Scale) * b + ((a % Scale) * b) \div Scale, Scale)

\* np.exp(-y / Scale) in 1 / ExpScale, for y >= 0
RECURSIVE ExpNeg(_)
ExpNeg(y) ==
    IF y >= 15 * Scale THEN 0
    ELSE IF y >= Scale
        THEN LET rest == ExpNeg(y - Scale) IN MulExp(ExpNeg1, rest)
    ELSE ExpSeries(y, ExpScale, 0, 1)

\* threshold = 0.8
SoftClipThreshold == (8 * Scale) \div 10

\* the smallest |x| (in 1 / Scale) at which 1 - exp(-(|x| - t)) is so close
\* to 1 that the double t + (1 - t) * (...) is 1.0 itself
SoftClipSaturation == 36285

\* the knee of soft_clip: (t + (1 - t) * (1 - exp(-(|x| - t)))) for |x| >= t.
\* Below the saturation point the double is below 1.0, so the fixed-point
\* value is kept below Scale.
SoftClipKnee(a) ==
    IF a >= SoftClipSaturation THEN Scale
    ELSE Min(Scale - 1,
             SoftClipThreshold +
             RoundDiv((Scale - SoftClipThreshold) *
                      (ExpScale - ExpNeg(a - SoftClipThreshold)), ExpScale))

SoftClipSample_KneeFromZero(s) ==
    IF s.cls = "nan" THEN s
    ELSE IF s.cls = "inf" THEN Fin(s.v * Scale)
    ELSE IF Abs(s.v) < SoftClipThreshold THEN s
    ELSE Fin(Sign(s.v) *
             (SoftClipThreshold +
              RoundDiv((Scale - SoftClipThreshold) *
                       (ExpScale - ExpNeg(Abs(s.v))), ExpScale)))

\* soft_clip(x, threshold=0.8) on one element:
\* np.where(|x| < t, x, sign(x) * (t + (1 - t) * (1 - exp(-(|x| - t)))))
SoftClipSample(s) ==
    IF s.cls = "nan" THEN s
    ELSE IF s.cls = "inf" THEN Fin(s.v * Scale)
    ELSE IF Abs(s.v) < SoftClipThreshold THEN s
    ELSE Fin(Sign(s.v) * SoftClipKnee(Abs(s.v)))

SoftClip(buf) == [i \in DOMAIN buf |-> SoftClipSample(buf[i])]

\* np.nan_to_num(x, nan=0.0, posinf=0.0, neginf=0.0)
NanToNum(buf) ==
    [i \in DOMAIN buf |-> IF buf[i].cls = "fin" THEN buf[i] ELSE Fin(0)]

\* np.max(np.abs(x)) of a buffer of finite samples
RECURSIVE PeakRange(_, _, _)
PeakRange(buf, lo, hi) ==
    IF lo > hi THEN 0
    ELSE IF lo = hi THEN Abs(buf[lo].v)
    ELSE LET mid == (lo + hi) \div 2
         IN  Max(PeakRange(buf, lo, mid), PeakRange(buf, mid + 1, hi))

Peak(buf) == PeakRange(buf, 1, Len(buf))

(***************************************************************************)
(* Conversion to 16-bit PCM: (x * 32767).astype(np.int16).  The cast       *)
(* truncates toward zero; a value outside the int16 range wraps modulo     *)
(* 2^16; the cast of NaN is undefined in C and gives 0 or -32768 depending *)
(* on the build (nan_cast).                                                *)
(***************************************************************************)
PcmFullScale == 32767

Int16Min == -32768

Int16Max == 32767

WrapInt16(n) == ((n - Int16Min) % 65536) + Int16Min

NanCastOutcomes == {0, Int16Min}

TruncScaled_Nearest(s) == RoundDiv(s.v * PcmFullScale, Scale)

\* the product x * 32767 of a finite sample, truncated toward zero
TruncScaled(s) == TruncDiv(s.v * PcmFullScale, Scale)

QuantizeSample(s, cast) ==
    IF s.cls = "nan" THEN cast
    ELSE IF s.cls = "inf" THEN cast
    ELSE WrapInt16(TruncScaled(s))

ToInt16(buf, cast) ==
    [i \in DOMAIN buf |-> QuantizeSample(buf[i], cast)]

(***************************************************************************)
(* The WAV container: sf.write(buffer, audio_int16, rate, format='WAV',    *)
(* subtype='PCM_16') stores the rate in the header and each sample as a    *)
(* 16-bit two's-complement word; reading it back decodes the words.        *)
(***************************************************************************)
WavWrite_FixedRate(samples, rate) ==
    [samplerate |-> 8000, channels |-> 1, subtype |-> "PCM_16",
     frames |-> [i \in DOMAIN samples |-> samples[i] % 65536]]

WavWrite(samples, rate) ==
    [samplerate |-> rate, channels |-> 1, subtype |-> "PCM_16",
     frames |-> [i \in DOMAIN samples |-> samples[i] % 65536]]

\* sf.read(..., dtype='int16') of such a container
WavRead(wav) ==
    [sample_rate |-> wav.samplerate,
     samples |-> [i \in DOMAIN wav.frames |->
                     IF wav.frames[i] >= 32768 THEN wav.frames[i] - 65536
                     ELSE wav.frames[i]]]

(***************************************************************************)
(* scipy.signal.resample(x, num): the FFT resampler of the library.  It    *)
(* raises for an empty input and for num <= 0, returns exactly num         *)
(* samples, and any non-finite input sample makes every output sample NaN. *)
(* The interpolated values of finite input are those of a zero-order hold: *)
(* the formulas checked below rely on the length, on determinism and on    *)
(* the propagation of NaN, not on the interpolated values.                 *)
(***************************************************************************)
ResampleRaises(buf, num) == Len(buf) = 0 \/ num <= 0

Resample(buf, num) ==
    LET n == Len(buf)
    IN  IF HasNonFinite(buf) THEN [i \in 1 .. num |-> NaN]
        ELSE [i \in 1 .. num |-> buf[((i - 1) * n) \div num + 1]]

(***************************************************************************)
(* Playback pipelines.  Frequencies derived by a true division (rate / 2)  *)
(* are carried in tenths of a hertz.                                       *)
(***************************************************************************)
\* minimum rate a browser plays: max(8000, int(sample_rate))
MinPlaybackRate == 8000

\* the rate below which aliasing is reported: sample_rate < 8000
AliasingRate == 8000

NyquistOf_IntegerHalf(sample_rate) == 10 * (sample_rate \div 2)

\* sample_rate / 2, in tenths of a hertz
NyquistOf(sample_rate) == (10 * sample_rate) \div 2

\* voice_aliasing.py 243-258 and doppler.py 337-352, 90-109: hard clip, RMS
\* normalisation, soft clip, final clip, nan_to_num
NormalizeForPlayback(buf) ==
    NanToNum(Clip(SoftClip(RmsNormalize(Clip(buf, -Scale, Scale))),
                  -((95 * Scale) \div 100), (95 * Scale) \div 100))

PreventClipping_InvertedRatio(buf) ==
    LET peak == Peak(buf)
    IN  IF Len(buf) = 0 \/ HasNaN(buf) \/ 10 * peak <= 9 * Scale THEN buf
        ELSE [i \in 1 .. Len(buf) |->
                 IF buf[i].cls = "fin"
                     THEN Fin(RoundDiv(buf[i].v * 10 * peak, 9 * Scale))
                     ELSE buf[i]]

\* drone.py 146-149: peak = np.max(np.abs(x)); if peak > 0.9: x = x * 0.9 / peak
\* (a NaN sample makes the peak NaN and NaN > 0.9 is False)
PreventClipping(buf) ==
    IF HasNaN(buf) \/ HasInf(buf) THEN buf
    ELSE LET peak == Peak(buf)
         IN  IF peak > (9 * Scale) \div 10
                 THEN [i \in DOMAIN buf |->
                          Fin(RoundDiv(buf[i].v * ((9 * Scale) \div 10), peak))]
                 ELSE buf

PlaybackRateOf_NoMinimum(sample_rate) == sample_rate

\* the browser-compatibility step shared by the three blueprints:
\* playback_sampling_rate = max(8000, int(sample_rate)), upsampled when higher
PlaybackRateOf(sample_rate) == Max(MinPlaybackRate, sample_rate)

UpsampledLength_Unchanged(len, playback_rate, sample_rate) == len

UpsampledLength(len, playback_rate, sample_rate) ==
    NewLengthByFactor(len, playback_rate, sample_rate)

AnalysisSampleRate_AlwaysTarget(resampled, target, original) == target

\* the rate of the analysis buffer: sample_rate = target_sampling_rate after a
\* resampling, original_sample_rate otherwise
AnalysisSampleRate(resampled, target, original) ==
    IF resampled THEN target ELSE original

(***************************************************************************)
(* Requests and responses                                                  *)
(***************************************************************************)
vars == <<calc, req, resp, doppler_available, nan_cast, files, proc, ecg, eeg>>

\* request.form.get('target_sampling_rate') is None (or empty)
NoTarget == -1

NoRequest == [endpoint |-> "none"]

NoResponse == [status |-> 0]

\* the request threads of the server (Flask serves each request on its own)
Workers == {1, 2}

\* an empty temporary directory
NoFiles == [p \in {} |-> p]

\* temporary_file_path = None
NoPath == [base |-> 0, suffix |-> ""]

\* an analyzer result without findings
NoAnalysis == [error |-> FALSE, source_frequency |-> 0]

\* nothing read yet
NoContent == [audio |-> <<>>, sr |-> 0, analysis |-> NoAnalysis]

\* None
NoData == [loaded |-> FALSE]

\* ecg_data_global = None, theta_global = None, sampling_rate_global = 360
NoEcg == [data |-> NoData, theta |-> NoData, rate |-> 360]

\* eeg_data_global = None, eeg_sampling_rate_global = 256
NoEeg == [data |-> NoData, rate |-> 256]

IdleWorker ==
    [pc |-> "idle", req |-> NoRequest, path |-> NoPath, loaded |-> NoContent,
     resp |-> NoResponse]

NoWorkers == [t \in Workers |-> IdleWorker]

Failure(code, msg) == [status |-> code, success |-> FALSE, error |-> msg]

\* int(target_sampling_rate) of a form string; the length a resampling to it asks for
FactorLength(len, target, original) ==
    IF target < 0 THEN -NewLengthByFactor(len, -target, original)
    ELSE NewLengthByFactor(len, target, original)

JsonBool(b) == IF b THEN "true" ELSE "false"

(***************************************************************************)
(* voice_aliasing.py                                                       *)
(***************************************************************************)
\* audio_signal[::sampling_step]
Decimate(buf, step) ==
    [i \in 1 .. ((Len(buf) + step - 1) \div step) |-> buf[(i - 1) * step + 1]]

\* VoiceAnalyzer._generate_waveform_visualization
GenerateWaveformVisualization(audio_signal, sample_rate, target) ==
    IF Len(audio_signal) = 0
        THEN [amplitude |-> <<Fin(0), Fin(0)>>,
              is_aliasing |-> FALSE,
              nyquist_frequency |-> NyquistOf(sample_rate)]
        ELSE [amplitude |->
                  Decimate(audio_signal, Max(1, Len(audio_signal) \div 1000)),
              is_aliasing |->
                  \/ sample_rate < AliasingRate
                  \/ (target /= NoTarget /\ target /= 0 /\ target < AliasingRate),
              nyquist_frequency |-> NyquistOf(sample_rate),
              analysis_sample_rate |-> sample_rate]

\* VoiceAnalyzer.analyze_voice: the analysis dict, or {'error': ...}
VoiceAnalysis(audio, original_sr, target) ==
    LET given == target /= NoTarget /\ target /= 0
        resampled == given /\ target /= original_sr
        new_length == FactorLength(Len(audio), target, original_sr)
        audio_data == IF resampled THEN Resample(audio, new_length) ELSE audio
        sample_rate == AnalysisSampleRate(resampled, target, original_sr)
    IN  IF resampled /\ ResampleRaises(audio, new_length)
            THEN [error |-> "Analysis failed"]
            ELSE [error |-> "",
                  audio_data |-> audio_data,
                  waveform_data |->
                      GenerateWaveformVisualization(audio_data, sample_rate, target),
                  sampling_info |->
                      [original_sample_rate |-> original_sr,
                       analysis_sample_rate |-> sample_rate,
                       was_resampled |->
                           IF ~given THEN "null" ELSE JsonBool(resampled),
                       nyquist_frequency |-> NyquistOf(sample_rate)]]

\* POST /api/analyze-voice
AnalyzeVoiceResponse(r) ==
    IF r.file = "missing" THEN Failure(400, "No audio file provided")
    ELSE IF r.file = "noname" THEN Failure(400, "No file selected")
    ELSE IF r.file = "badext" THEN Failure(400, "Unsupported file type")
    ELSE IF r.target /= NoTarget /\ (r.target < 100 \/ r.target > 48000)
        THEN Failure(400, "Target sampling rate must be between 100 and 48000 Hz")
    ELSE LET analysis == VoiceAnalysis(r.audio, r.original_sr, r.target)
         IN  IF analysis.error /= "" THEN Failure(400, analysis.error)
             ELSE [status |-> 200, success |-> TRUE, analysis |-> analysis]

\* POST /api/get-resampled-voice
GetResampledVoiceResponse(r, cast) ==
    IF r.file = "missing" THEN Failure(400, "No audio file provided")
    ELSE IF r.file = "noname" THEN Failure(400, "No file selected")
    ELSE IF r.target = NoTarget
        THEN Failure(400, "No target sampling rate provided")
    ELSE
    LET was_resampled == r.target /= r.original_sr
        new_length == FactorLength(Len(r.audio), r.target, r.original_sr)
        audio_data == IF was_resampled THEN Resample(r.audio, new_length)
                      ELSE r.audio
        sample_rate == AnalysisSampleRate(was_resampled, r.target, r.original_sr)
        playback_sampling_rate ==
            IF r.mode = "download" THEN sample_rate
            ELSE PlaybackRateOf(sample_rate)
        was_upsampled ==
            r.mode /= "download" /\ playback_sampling_rate > sample_rate
        upsampled_length ==
            UpsampledLength(Len(audio_data), playback_sampling_rate, sample_rate)
        audio_data_playback ==
            IF was_upsampled THEN Resample(audio_data, upsampled_length)
            ELSE audio_data
        normalized == NormalizeForPlayback(audio_data_playback)
    IN  IF was_resampled /\ ResampleRaises(r.audio, new_length)
            THEN Failure(500, "resample")
        ELSE IF was_upsampled /\ ResampleRaises(audio_data, upsampled_length)
            THEN Failure(500, "resample")
        ELSE [status |-> 200, success |-> TRUE,
              audio_data |-> audio_data,
              sample_rate |-> sample_rate,
              audio_data_playback |-> normalized,
              audio_int16 |-> ToInt16(normalized, cast),
              wav_rate |-> playback_sampling_rate,
              wav |-> WavWrite(ToInt16(normalized, cast), playback_sampling_rate),
              original_sampling_rate |-> r.original_sr,
              target_sampling_rate |-> r.target,
              playback_sampling_rate |-> playback_sampling_rate,
              was_upsampled |-> was_upsampled,
              was_resampled |-> JsonBool(was_resampled),
              mode |-> r.mode]

(***************************************************************************)
(* drone.py                                                                *)
(***************************************************************************)
\* resample_audio_for_analysis: <<raised, audio_resampled, target_sr>>
ResampleAudioForAnalysis(audio_data, original_sr, target_sr) ==
    LET new_length == NewLengthByDuration(Len(audio_data), target_sr, original_sr)
    IN  IF target_sr /= original_sr
            THEN IF ResampleRaises(audio_data, new_length)
                     THEN [raised |-> TRUE]
                     ELSE [raised |-> FALSE,
                           audio |-> Resample(audio_data, new_length),
                           sr |-> target_sr]
            ELSE [raised |-> FALSE, audio |-> audio_data, sr |-> target_sr]

\* create_playback_audio: np.max of an empty buffer raises ValueError
CreatePlaybackAudio(audio_data, sample_rate, mode, cast) ==
    LET audio_normalized == Clip(audio_data, -Scale, Scale)
        playback_sampling_rate ==
            IF mode = "playback" THEN PlaybackRateOf(sample_rate)
            ELSE sample_rate
        was_upsampled ==
            mode = "playback" /\ playback_sampling_rate > sample_rate
        upsampled_length ==
            UpsampledLength(Len(audio_normalized), playback_sampling_rate,
                            sample_rate)
        audio_playback ==
            IF was_upsampled THEN Resample(audio_normalized, upsampled_length)
            ELSE audio_normalized
        scaled == PreventClipping(audio_playback)
    IN  IF was_upsampled /\ ResampleRaises(audio_normalized, upsampled_length)
            THEN [raised |-> TRUE]
        ELSE IF Len(audio_playback) = 0 THEN [raised |-> TRUE]
        ELSE [raised |-> FALSE,
              audio_playback |-> scaled,
              audio_int16 |-> ToInt16(scaled, cast),
              wav_rate |-> playback_sampling_rate,
              wav |-> WavWrite(ToInt16(scaled, cast), playback_sampling_rate),
              playback_sampling_rate |-> playback_sampling_rate,
              was_upsampled |-> was_upsampled]

\* generate_waveform_data
GenerateWaveformData(audio_data, sample_rate) ==
    [amplitude |-> Decimate(audio_data, Max(1, Len(audio_data) \div 800)),
     sample_rate |-> sample_rate,
     nyquist_frequency |-> NyquistOf(sample_rate),
     is_aliasing |-> sample_rate < AliasingRate]

\* POST /api/drone/resample-audio
DroneResampleAudioResponse(r, cast) ==
    IF r.file = "missing" THEN Failure(400, "No audio file provided")
    ELSE IF r.file = "noname" THEN Failure(400, "No file selected")
    ELSE IF r.target = NoTarget THEN Failure(400, "No sampling rate provided")
    ELSE IF r.target < 100 \/ r.target > 48000
        THEN Failure(400, "Sampling rate must be between 100 and 48000 Hz")
    ELSE IF r.file = "badext" THEN Failure(400, "Invalid file type")
    ELSE
    LET analysis == ResampleAudioForAnalysis(r.audio, r.original_sr, r.target)
        audio_result ==
            CreatePlaybackAudio(analysis.audio, analysis.sr, r.mode, cast)
        resampled_waveform == GenerateWaveformData(analysis.audio, analysis.sr)
    IN  IF analysis.raised THEN Failure(500, "Processing failed")
        ELSE IF audio_result.raised THEN Failure(500, "Processing failed")
        ELSE [status |-> 200, success |-> TRUE,
              audio_data |-> analysis.audio,
              sample_rate |-> analysis.sr,
              audio_data_playback |-> audio_result.audio_playback,
              audio_int16 |-> audio_result.audio_int16,
              wav_rate |-> audio_result.wav_rate,
              wav |-> audio_result.wav,
              waveform_data |-> resampled_waveform,
              sampling_info |->
                  [original_sample_rate |-> r.original_sr,
                   analysis_sample_rate |-> analysis.sr,
                   playback_sample_rate |-> audio_result.playback_sampling_rate,
                   nyquist_frequency |-> resampled_waveform.nyquist_frequency,
                   was_resampled |-> JsonBool(r.target /= r.original_sr),
                   was_upsampled |-> audio_result.was_upsampled,
                   has_aliasing |-> resampled_waveform.is_aliasing,
                   mode |-> r.mode]]

(***************************************************************************)
(* doppler.py                                                              *)
(***************************************************************************)
\* POST /api/get-resampled-audio: the request's mode field is never read
GetResampledAudioResponse(r, cast) ==
    IF r.file = "missing" THEN Failure(400, "No audio file provided")
    ELSE IF r.file = "noname" THEN Failure(400, "No file selected")
    ELSE IF r.target = NoTarget
        THEN Failure(400, "No target sampling rate provided")
    ELSE
    LET was_resampled == r.target /= r.original_sr
        new_length == FactorLength(Len(r.audio), r.target, r.original_sr)
        audio_data == IF was_resampled THEN Resample(r.audio, new_length)
                      ELSE r.audio
        sample_rate == AnalysisSampleRate(was_resampled, r.target, r.original_sr)
        playback_sampling_rate == PlaybackRateOf(sample_rate)
        was_upsampled == playback_sampling_rate > sample_rate
        upsampled_length ==
            UpsampledLength(Len(audio_data), playback_sampling_rate, sample_rate)
        audio_data_playback ==
            IF was_upsampled THEN Resample(audio_data, upsampled_length)
            ELSE audio_data
        normalized == NormalizeForPlayback(audio_data_playback)
    IN  IF was_resampled /\ ResampleRaises(r.audio, new_length)
            THEN Failure(500, "resample")
        ELSE IF was_upsampled /\ ResampleRaises(audio_data, upsampled_length)
            THEN Failure(500, "resample")
        ELSE [status |-> 200, success |-> TRUE,
              audio_data |-> audio_data,
              sample_rate |-> sample_rate,
              audio_data_playback |-> normalized,
              audio_int16 |-> ToInt16(normalized, cast),
              wav_rate |-> playback_sampling_rate,
              wav |-> WavWrite(ToInt16(normalized, cast), playback_sampling_rate),
              original_sampling_rate |-> sample_rate,
              playback_sampling_rate |-> playback_sampling_rate,
              was_upsampled |-> was_upsampled,
              was_resampled |-> JsonBool(was_resampled)]

\* POST /api/analyze-vehicle-sound.  r.analysis is what
\* doppler_analyzer.analyze_audio_signal returns for the analysed file.
AnalyzeVehicleSoundResponse(r, available) ==
    IF r.file = "missing" THEN Failure(400, "No audio file provided")
    ELSE IF r.file = "noname" THEN Failure(400, "No file selected")
    ELSE IF r.file = "badext" THEN Failure(400, "Unsupported file type")
    ELSE IF r.target /= NoTarget /\ (r.target < 100 \/ r.target > 48000)
        THEN Failure(400, "Target sampling rate must be between 100 and 48000 Hz")
    ELSE
    LET resampled == r.target /= NoTarget /\ r.target /= r.original_sr
        new_length == FactorLength(Len(r.audio), r.target, r.original_sr)
        audio_data == IF resampled THEN Resample(r.audio, new_length)
                      ELSE r.audio
        sample_rate == AnalysisSampleRate(resampled, r.target, r.original_sr)
        nyquist_freq == NyquistOf(sample_rate)
    IN  IF resampled /\ ResampleRaises(r.audio, new_length)
            THEN Failure(500, "resample")
        ELSE IF ~available THEN Failure(500, "Doppler analyzer not available")
        ELSE IF r.analysis.error THEN Failure(400, "analysis error")
        ELSE [status |-> 200, success |-> TRUE,
              audio_data |-> audio_data,
              analysis |->
                  [source_frequency |-> r.analysis.source_frequency,
                   sampling_info |->
                       [original_sample_rate |-> r.original_sr,
                        analysis_sample_rate |-> sample_rate,
                        was_resampled |->
                            IF r.target = NoTarget THEN "null"
                            ELSE JsonBool(resampled),
                        nyquist_frequency |-> nyquist_freq],
                   has_aliasing |->
                       10 * r.analysis.source_frequency > nyquist_freq]]

\* POST /api/get-spectrogram (doppler.py 396-491).  The target rate is read
\* without a range check; librosa.stft refuses n_fft = 0 and a buffer that is
\* not finite everywhere, and that failure is answered by the inner handler.
GetSpectrogramResponse(r) ==
    IF r.file = "missing" THEN Failure(400, "No audio file provided")
    ELSE IF r.file = "noname" THEN Failure(400, "No file selected")
    ELSE
    LET resampled == r.target /= NoTarget /\ r.target /= r.original_sr
        new_length == FactorLength(Len(r.audio), r.target, r.original_sr)
        audio_data == IF resampled THEN Resample(r.audio, new_length)
                      ELSE r.audio
        sample_rate == AnalysisSampleRate(resampled, r.target, r.original_sr)
        fft_size == Min(2048, Len(audio_data) \div 4)
        hop_length == Max(256, fft_size \div 8)
    IN  IF resampled /\ ResampleRaises(r.audio, new_length)
            THEN Failure(500, "resample")
        ELSE IF fft_size <= 0 \/ HasNonFinite(audio_data)
            THEN Failure(500, "Spectrogram generation failed")
        ELSE [status |-> 200, success |-> TRUE,
              spectrogram |->
                  [sample_rate |-> sample_rate,
                   nyquist_frequency |-> NyquistOf(sample_rate),
                   fft_size |-> fft_size,
                   hop_length |-> hop_length,
                   frames |-> 1 + Len(audio_data) \div hop_length]]

\* the JSON literal NaN, which json.loads turns into float('nan')
JsonNaN == -1000000

\* x < lo or x > hi: both comparisons are False for NaN
OutsideRange(x, lo, hi) == x /= JsonNaN /\ (x < lo \/ x > hi)

\* POST /api/generate-doppler-sound.  r.waveform is what
\* DopplerSoundGenerator.generate_vehicle_sound returns for the parameters.
GenerateDopplerSoundResponse(r, available, cast) ==
    IF ~r.is_json THEN Failure(400, "Request must contain JSON data")
    ELSE IF OutsideRange(r.base_freq, 80, 1000)
        THEN Failure(400, "Base frequency must be between 80 and 1000 Hz")
    ELSE IF OutsideRange(r.velocity, 0, 500)
        THEN Failure(400, "Vehicle velocity must be between 0 and 500 km/h")
    ELSE IF OutsideRange(r.sampling_rate, 50, 4000)
        THEN Failure(400, "Sampling rate must be between 50 and 4000 Hz")
    ELSE IF ~available THEN Failure(500, "Doppler sound generator not available")
    ELSE IF r.sampling_rate = JsonNaN
        THEN Failure(500, "cannot convert float NaN to integer")
    ELSE
    LET playback_sampling_rate == PlaybackRateOf(r.sampling_rate)
        was_upsampled == playback_sampling_rate > r.sampling_rate
        upsampled_length ==
            UpsampledLength(Len(r.waveform), playback_sampling_rate,
                            r.sampling_rate)
        audio_waveform_playback ==
            IF was_upsampled THEN Resample(r.waveform, upsampled_length)
            ELSE r.waveform
        normalized == NormalizeForPlayback(audio_waveform_playback)
        nyquist_frequency == NyquistOf(r.sampling_rate)
        highest_harmonic == r.base_freq * 6
    IN  IF was_upsampled /\ ResampleRaises(r.waveform, upsampled_length)
            THEN Failure(500, "resample")
        ELSE [status |-> 200, success |-> TRUE,
              audio_data_playback |-> normalized,
              audio_int16 |-> ToInt16(normalized, cast),
              wav_rate |-> playback_sampling_rate,
              wav |-> WavWrite(ToInt16(normalized, cast), playback_sampling_rate),
              amplitude |-> Clip(r.waveform, -Scale, Scale),
              generation_parameters |->
                  [base_frequency |-> r.base_freq,
                   velocity |-> r.velocity,
                   sampling_rate |-> r.sampling_rate,
                   playback_sampling_rate |-> playback_sampling_rate,
                   nyquist_frequency |-> nyquist_frequency,
                   highest_harmonic |-> highest_harmonic,
                   absolute_max_freq |-> Min(1000, highest_harmonic),
                   is_aliasing |-> 10 * r.base_freq > nyquist_frequency,
                   is_harmonic_aliasing |->
                       10 * highest_harmonic > nyquist_frequency,
                   was_upsampled |-> was_upsampled]]

(***************************************************************************)
(* The server.  A handler runs from the idle state on a request drawn from *)
(* the sets below and leaves the request and its response in req and resp; *)
(* Respond hands the response to the client and the request context is     *)
(* discarded.  doppler_available is DOPPLER_AVAILABLE, fixed at import;    *)
(* nan_cast is what the build's float-to-int16 conversion makes of NaN.    *)
(***************************************************************************)
SampleValues == {Fin(0), Fin(Scale \div 2), Fin(-2 * Scale), NaN, PosInf}

Buffers == UNION {[1 .. n -> SampleValues] : n \in 0 .. MaxLen}

OriginalRates == {4000, 11025}

TargetRates == {NoTarget, -200, 0, 50, 4000, 6000, 8000, 11025, 48001}

Modes == {"playback", "download", "other"}

\* an upload that a handler reads: the decoded mono buffer and its rate
Uploads(endpoint, modes) ==
    {[endpoint |-> endpoint, file |-> "ok", audio |-> a, original_sr |-> o,
      target |-> t, mode |-> m] :
        a \in Buffers, o \in OriginalRates, t \in TargetRates, m \in modes}

\* a request without a usable file part
BadUploads(endpoint) ==
    {[endpoint |-> endpoint, file |-> f, audio |-> <<>>, original_sr |-> 4000,
      target |-> t, mode |-> "playback"] :
        f \in {"missing", "noname", "badext"}, t \in {NoTarget, 4000}}

AnalyzerOutcomes ==
    {[error |-> FALSE, source_frequency |-> 0],
     [error |-> FALSE, source_frequency |-> 3000],
     [error |-> TRUE, source_frequency |-> 0]}

VehicleUploads ==
    {[endpoint |-> "analyze-vehicle-sound", file |-> "ok", audio |-> a,
      original_sr |-> o, target |-> t, mode |-> "playback", analysis |-> x] :
        a \in Buffers, o \in OriginalRates, t \in TargetRates,
        x \in AnalyzerOutcomes}

GeneratorWaveforms == {<<Fin(Scale \div 2)>>, <<Fin(Scale \div 2), Fin(-2 * Scale)>>}

GenerateRequests ==
    {[endpoint |-> "generate-doppler-sound", is_json |-> j, base_freq |-> f,
      velocity |-> v, sampling_rate |-> sr, waveform |-> w] :
        j \in BOOLEAN, f \in {79, 80, 120, 1000, 1001}, v \in {60, 501},
        sr \in {49, 50, 200, 4000, 4001, JsonNaN}, w \in GeneratorWaveforms}

Init ==
    /\ calc = [form |-> "none"]
    /\ req = NoRequest
    /\ resp = NoResponse
    /\ doppler_available \in BOOLEAN
    /\ nan_cast \in NanCastOutcomes
    /\ files = NoFiles
    /\ proc = NoWorkers
    /\ ecg = NoEcg
    /\ eeg = NoEeg

Idle == req = NoRequest

Handle(r, response) ==
    /\ req' = r
    /\ resp' = response
    /\ UNCHANGED <<calc, doppler_available, nan_cast, files, proc, ecg, eeg>>

AnalyzeVoice ==
    /\ Idle
    /\ \E r \in Uploads("analyze-voice", {"playback"}) \cup BadUploads("analyze-voice") :
        Handle(r, AnalyzeVoiceResponse(r))

GetResampledVoice ==
    /\ Idle
    /\ \E r \in Uploads("get-resampled-voice", Modes)
             \cup BadUploads("get-resampled-voice") :
        Handle(r, GetResampledVoiceResponse(r, nan_cast))

DroneResampleAudio ==
    /\ Idle
    /\ \E r \in Uploads("drone-resample-audio", Modes)
             \cup BadUploads("drone-resample-audio") :
        Handle(r, DroneResampleAudioResponse(r, nan_cast))

GetResampledAudio ==
    /\ Idle
    /\ \E r \in Uploads("get-resampled-audio", {"playback", "download"})
             \cup BadUploads("get-resampled-audio") :
        Handle(r, GetResampledAudioResponse(r, nan_cast))

AnalyzeVehicleSound ==
    /\ Idle
    /\ \E r \in VehicleUploads \cup BadUploads("analyze-vehicle-sound") :
        Handle(r, AnalyzeVehicleSoundResponse(r, doppler_available))

GenerateDopplerSound ==
    /\ Idle
    /\ \E r \in GenerateRequests :
        Handle(r, GenerateDopplerSoundResponse(r, doppler_available, nan_cast))

Respond ==
    /\ ~Idle
    /\ req' = NoRequest
    /\ resp' = NoResponse
    /\ UNCHANGED <<calc, doppler_available, nan_cast, files, proc, ecg, eeg>>

Next ==
    \/ AnalyzeVoice
    \/ GetResampledVoice
    \/ DroneResampleAudio
    \/ GetResampledAudio
    \/ AnalyzeVehicleSound
    \/ GenerateDopplerSound
    \/ Respond

Spec == Init /\ [][Next]_vars

(***************************************************************************)
(* What a response reports, by endpoint                                    *)
(***************************************************************************)
PlaybackEndpoints ==
    {"get-resampled-voice", "drone-resample-audio", "get-resampled-audio"}

Succeeded == resp.status = 200

\* a resample endpoint answered with a playback payload
PlaybackDone == req.endpoint \in PlaybackEndpoints /\ Succeeded

ReportedPlaybackRate ==
    IF req.endpoint = "drone-resample-audio"
        THEN resp.sampling_info.playback_sample_rate
        ELSE resp.playback_sampling_rate

ReportedWasUpsampled ==
    IF req.endpoint = "drone-resample-audio"
        THEN resp.sampling_info.was_upsampled
        ELSE resp.was_upsampled

\* an endpoint with a resampling step answered
ResampleEndpoints ==
    PlaybackEndpoints \cup {"analyze-voice", "analyze-vehicle-sound"}

ResampleDone == req.endpoint \in ResampleEndpoints /\ Succeeded

AnalysisAudio ==
    IF req.endpoint = "analyze-voice" THEN resp.analysis.audio_data
    ELSE resp.audio_data

ReportedAnalysisRate ==
    IF req.endpoint \in {"analyze-voice", "analyze-vehicle-sound"}
        THEN resp.analysis.sampling_info.analysis_sample_rate
    ELSE IF req.endpoint = "drone-resample-audio"
        THEN resp.sampling_info.analysis_sample_rate
    ELSE resp.sample_rate

(***************************************************************************)
(* Claims                                                                  *)
(***************************************************************************)
\* C1: in download mode every resample endpoint that produces a playback
\* payload (voice, drone, Doppler) encodes the audio at the analysis rate and
\* reports was_upsampled = false, whatever the rate and the buffer.
C1_DownloadKeepsRate ==
    (PlaybackDone /\ req.mode = "download") =>
        /\ resp.wav_rate = resp.sample_rate
        /\ ReportedPlaybackRate = resp.sample_rate
        /\ ReportedWasUpsampled = FALSE

\* C2: in playback mode the output rate is max(8000, r) for the analysis rate
\* r, and was_upsampled is true exactly when the output rate is above r.
C2_PlaybackRateIsMax ==
    (PlaybackDone /\ req.mode = "playback") =>
        LET r == resp.sample_rate
            expected == IF r < 8000 THEN 8000 ELSE r
        IN  /\ r > 0
            /\ resp.wav_rate = expected
            /\ ReportedPlaybackRate = expected
            /\ ReportedWasUpsampled = (resp.wav_rate > r)
            /\ ReportedWasUpsampled = (r < 8000)

C2_Witness ==
    /\ PlaybackDone
    /\ req.mode = "playback"
    /\ resp.sample_rate = 6000
    /\ resp.wav_rate = 8000
    /\ ReportedWasUpsampled
    /\ Len(resp.audio_int16) > Len(resp.audio_data)

\* C3: when the target rate is absent or equal to the original rate the
\* resampling step returns the same samples in the same order, and the
\* analysis rate is the original rate.
C3_IdentityWithoutResampling ==
    (ResampleDone /\ (req.target = NoTarget \/ req.target = req.original_sr)) =>
        /\ AnalysisAudio = req.audio
        /\ ReportedAnalysisRate = req.original_sr

C3_Witness ==
    /\ ResampleDone
    /\ req.endpoint = "analyze-voice"
    /\ req.target = NoTarget
    /\ Len(req.audio) = 2
    /\ req.audio[1] /= req.audio[2]
    /\ AnalysisAudio = req.audio

\* the analysis rate a request asks for: the target when one is given and
\* differs from the file's rate, the file's rate otherwise
RequestedAnalysisRate ==
    IF req.target /= NoTarget /\ req.target /= req.original_sr
        THEN req.target ELSE req.original_sr

\* a response that carries an is_aliasing flag computed by the waveform helpers
WaveformDone ==
    req.endpoint \in {"analyze-voice", "drone-resample-audio"} /\ Succeeded

ReportedIsAliasing ==
    IF req.endpoint = "analyze-voice"
        THEN resp.analysis.waveform_data.is_aliasing
        ELSE resp.waveform_data.is_aliasing

\* C5: is_aliasing is true if and only if the analysis rate is below 8000 Hz,
\* for every buffer, the empty one included, with or without a target rate.
C5_AliasingIffBelow8000 ==
    WaveformDone => (ReportedIsAliasing = (ReportedAnalysisRate < 8000))

\* the nyquist_frequency values a response carries (tenths of a hertz), each
\* with the rate it is reported for
ReportedNyquist ==
    IF ~Succeeded THEN {}
    ELSE IF req.endpoint = "analyze-voice"
        THEN {<<resp.analysis.sampling_info.nyquist_frequency,
                RequestedAnalysisRate>>,
              <<resp.analysis.waveform_data.nyquist_frequency,
                RequestedAnalysisRate>>}
    ELSE IF req.endpoint = "drone-resample-audio"
        THEN {<<resp.sampling_info.nyquist_frequency, RequestedAnalysisRate>>,
              <<resp.waveform_data.nyquist_frequency, RequestedAnalysisRate>>}
    ELSE IF req.endpoint = "analyze-vehicle-sound"
        THEN {<<resp.analysis.sampling_info.nyquist_frequency,
                RequestedAnalysisRate>>}
    ELSE IF req.endpoint = "generate-doppler-sound"
        THEN {<<resp.generation_parameters.nyquist_frequency,
                req.sampling_rate>>}
    ELSE {}

\* C6: every reported nyquist_frequency is exactly half the analysis rate of
\* its response, odd rates included (5512.5 Hz for 11025 Hz).
C6_NyquistIsHalfRate ==
    \A pair \in ReportedNyquist : 2 * pair[1] = 10 * pair[2]

C6_Witness ==
    /\ Succeeded
    /\ \E pair \in ReportedNyquist : pair[2] = 11025 /\ pair[1] = 55125

\* the aliasing flag a response carries, with the rate it is reported for
AliasingEndpoints ==
    {"analyze-voice", "drone-resample-audio", "analyze-vehicle-sound",
     "generate-doppler-sound"}

AliasingFlagOf(endpoint, response) ==
    IF endpoint = "analyze-voice"
        THEN response.analysis.waveform_data.is_aliasing
    ELSE IF endpoint = "drone-resample-audio"
        THEN response.sampling_info.has_aliasing
    ELSE IF endpoint = "analyze-vehicle-sound"
        THEN response.analysis.has_aliasing
    ELSE response.generation_parameters.is_aliasing

\* what the handler of the current endpoint answers to another request
ResponseTo(r) ==
    IF r.endpoint = "analyze-voice" THEN AnalyzeVoiceResponse(r)
    ELSE IF r.endpoint = "drone-resample-audio"
        THEN DroneResampleAudioResponse(r, nan_cast)
    ELSE IF r.endpoint = "analyze-vehicle-sound"
        THEN AnalyzeVehicleSoundResponse(r, doppler_available)
    ELSE GenerateDopplerSoundResponse(r, doppler_available, nan_cast)

\* requests at the same rates as the current one whose buffer (samples,
\* length, detected or requested source frequency) is different
SameRateRequests ==
    IF req.endpoint = "analyze-vehicle-sound"
        THEN {[req EXCEPT !.analysis = a] : a \in AnalyzerOutcomes}
    ELSE IF req.endpoint = "generate-doppler-sound"
        THEN {[req EXCEPT !.base_freq = f] : f \in {80, 120, 1000}}
    ELSE {[req EXCEPT !.audio = b] : b \in Buffers}

\* C7: two analyses at the same analysis rate report the same aliasing flag,
\* whatever their buffers hold or however long they are; buffer contents
\* never change the flag.
C7_FlagDependsOnRateOnly ==
    (req.endpoint \in AliasingEndpoints /\ Succeeded) =>
        \A other \in SameRateRequests :
            LET answer == ResponseTo(other)
            IN  answer.status = 200 =>
                    AliasingFlagOf(req.endpoint, answer)
                        = AliasingFlagOf(req.endpoint, resp)

\* what the playback handler of another blueprint answers to a request
PlaybackResponseTo(r) ==
    IF r.endpoint = "get-resampled-voice"
        THEN GetResampledVoiceResponse(r, nan_cast)
    ELSE IF r.endpoint = "drone-resample-audio"
        THEN DroneResampleAudioResponse(r, nan_cast)
    ELSE GetResampledAudioResponse(r, nan_cast)

\* the analysis buffer of the response, brought to the rate it is encoded at
BufferAtPlaybackRate ==
    IF resp.wav_rate > resp.sample_rate
        THEN Resample(resp.audio_data,
                      UpsampledLength(Len(resp.audio_data), resp.wav_rate,
                                      resp.sample_rate))
        ELSE resp.audio_data

\* C8: the voice, drone and Doppler copies of the pipeline normalise in the
\* same six steps in the same order, after any upsampling, so the same
\* buffer, rate and mode give the same PCM samples from each of them.
C8_SamePcmFromEveryCopy ==
    (PlaybackDone /\ req.mode = "playback") =>
        /\ resp.audio_int16
               = ToInt16(NormalizeForPlayback(BufferAtPlaybackRate), nan_cast)
        /\ \A e \in PlaybackEndpoints :
               LET answer == PlaybackResponseTo([req EXCEPT !.endpoint = e])
               IN  answer.status = 200 =>
                       /\ answer.wav_rate = resp.wav_rate
                       /\ answer.audio_int16 = resp.audio_int16

\* a handler answered with 16-bit samples
PcmDone ==
    /\ req.endpoint \in PlaybackEndpoints \cup {"generate-doppler-sound"}
    /\ Succeeded

\* C9: every sample written out is an integer in [-32768, 32767] and none
\* has wrapped: it lies within one step of the normalised value times 32767.
C9_PcmInRange ==
    PcmDone =>
        /\ Len(resp.audio_int16) = Len(resp.audio_data_playback)
        /\ \A i \in 1 .. Len(resp.audio_int16) :
               LET s == resp.audio_data_playback[i]
                   pcm == resp.audio_int16[i]
               IN  /\ pcm \in -32768 .. 32767
                   /\ s.cls = "fin" =>
                          /\ s.v * 32767 > -32769 * Scale
                          /\ s.v * 32767 < 32768 * Scale
                          /\ Abs(pcm * Scale - s.v * 32767) < Scale

\* an input above full scale and a NaN reach the conversion
C9_Witness ==
    /\ PcmDone
    /\ req.endpoint = "drone-resample-audio"
    /\ req.audio = <<NaN, Fin(-2 * Scale)>>
    /\ resp.audio_int16[1] = nan_cast
    /\ resp.audio_int16[2] < 0
    /\ resp.audio_int16[2] >= -32768

\* C10 as stated: a normalised sample s is quantised to round(s * 32767),
\* the nearest integer.
C10_RoundsToNearest ==
    PcmDone =>
        \A i \in 1 .. Len(resp.audio_int16) :
            LET s == resp.audio_data_playback[i]
            IN  s.cls = "fin" =>
                    resp.audio_int16[i] = RoundDiv(s.v * 32767, Scale)

\* C10, amended: s * 32767 is converted by dropping its fraction (truncation
\* toward zero): the sample keeps the sign of s and its magnitude is the
\* largest integer not above |s * 32767|.
C10_TruncatesTowardZero ==
    PcmDone =>
        \A i \in 1 .. Len(resp.audio_int16) :
            LET s == resp.audio_data_playback[i]
                pcm == resp.audio_int16[i]
                exact == s.v * 32767
            IN  s.cls = "fin" =>
                    /\ pcm = 0 \/ Sign(pcm) = Sign(exact)
                    /\ Abs(pcm) * Scale <= Abs(exact)
                    /\ Abs(exact) < (Abs(pcm) + 1) * Scale

\* a sample whose fraction is one half or more, which rounding would raise
C10_Witness ==
    /\ PcmDone
    /\ \E i \in 1 .. Len(resp.audio_int16) :
           LET s == resp.audio_data_playback[i]
           IN  /\ s.cls = "fin"
               /\ 2 * ((Abs(s.v) * 32767) % Scale) >= Scale
               /\ Abs(resp.audio_int16[i]) = (Abs(s.v) * 32767) \div Scale
               /\ resp.audio_int16[i] /= 0

\* a playback route has answered an upload that passed the request checks
ValidTarget(t) == t >= 100 /\ t <= 48000

PlaybackAnswered ==
    /\ req.endpoint \in PlaybackEndpoints
    /\ resp /= NoResponse
    /\ req.file = "ok"
    /\ ValidTarget(req.target)

\* C12: an empty buffer goes through the resampling and playback steps
\* without an exception, whatever the rates and the mode: the request
\* succeeds with an empty analysis buffer and an empty PCM sequence.
C12_EmptyBufferCompletes ==
    (PlaybackAnswered /\ req.audio = <<>>) =>
        /\ resp.status = 200
        /\ resp.audio_data = <<>>
        /\ resp.audio_int16 = <<>>

\* a route that takes target_sampling_rate has answered an upload that
\* carried one
TargetAnswered ==
    /\ req.endpoint \in ResampleEndpoints
    /\ resp /= NoResponse
    /\ req.file = "ok"
    /\ req.target /= NoTarget

\* C13: a target_sampling_rate outside [100, 48000], zero and negative
\* values included, is rejected as an invalid request by every endpoint that
\* takes one, before any resampling: it never succeeds and never ends in an
\* internal error.
C13_TargetOutOfRangeRejected ==
    (TargetAnswered /\ ~ValidTarget(req.target)) => resp.status = 400

\* the was_resampled field of a response, as it is serialised
ReportedWasResampled ==
    IF req.endpoint \in {"analyze-voice", "analyze-vehicle-sound"}
        THEN resp.analysis.sampling_info.was_resampled
    ELSE IF req.endpoint = "drone-resample-audio"
        THEN resp.sampling_info.was_resampled
    ELSE resp.was_resampled

\* C15: was_resampled is always a boolean: true exactly when a target rate
\* was supplied and differs from the original rate, false otherwise, also
\* when no target rate was supplied.
C15_WasResampledIsBoolean ==
    ResampleDone =>
        ReportedWasResampled
            = JsonBool(req.target /= NoTarget /\ req.target /= req.original_sr)

\* the playback rate a response with audio reports
ReportedPayloadRate ==
    IF req.endpoint = "generate-doppler-sound"
        THEN resp.generation_parameters.playback_sampling_rate
        ELSE ReportedPlaybackRate

\* C16: the WAV container of a response is written at the rate the response
\* reports as its playback rate, and decoding it gives back as many samples
\* as the quantised playback buffer holds (and the same samples).
C16_WavRoundTrip ==
    PcmDone =>
        LET decoded == WavRead(resp.wav)
        IN  /\ decoded.sample_rate = ReportedPayloadRate
            /\ Len(decoded.samples) = Len(resp.audio_int16)
            /\ decoded.samples = resp.audio_int16

\* a payload at 4000 Hz with a negative sample has been encoded
C16_Witness ==
    /\ PcmDone
    /\ ReportedPayloadRate = 4000
    /\ resp.wav.samplerate = 4000
    /\ Len(resp.audio_int16) = 2
    /\ resp.audio_int16[1] < 0
    /\ resp.wav.frames[1] = resp.audio_int16[1] + 65536

\* the analysis buffer of a successful playback response is silence
SilentPlayback ==
    /\ req.endpoint \in {"get-resampled-voice", "get-resampled-audio"}
    /\ resp.status = 200
    /\ Len(resp.audio_data) > 0
    /\ \A i \in DOMAIN resp.audio_data : resp.audio_data[i] = Fin(0)

\* C20: when the playback buffer is all zeros its RMS is 0, the RMS scaling
\* leaves the buffer as it is (no division by zero, no NaN), and the quantised
\* output is all zeros and as long as the playback buffer.
C20_ZeroRmsSkipsScaling ==
    SilentPlayback =>
        LET playback == [i \in 1 .. Len(resp.audio_data_playback) |-> Fin(0)]
        IN  /\ RmsNormalize(playback) = playback
            /\ resp.audio_data_playback = playback
            /\ resp.audio_int16 = [i \in DOMAIN playback |-> 0]

\* a silent upload, resampled and then upsampled for the browser
C20_Witness ==
    /\ SilentPlayback
    /\ req.target /= req.original_sr
    /\ resp.was_upsampled
    /\ Len(resp.audio_int16) > Len(resp.audio_data)

\* C21: a mode that is neither 'playback' nor 'download' is processed as
\* playback by the voice and the drone endpoint alike: the output rate is
\* max(8000, r) for the analysis rate r and was_upsampled is true exactly
\* when r is below 8000, so both endpoints agree on the same rate and mode.
C21_UnknownModeIsPlayback ==
    (/\ PlaybackDone
     /\ req.endpoint \in {"get-resampled-voice", "drone-resample-audio"}
     /\ req.mode \notin {"playback", "download"})
    => /\ ReportedPlaybackRate = PlaybackRateOf(ReportedAnalysisRate)
       /\ ReportedWasUpsampled = (ReportedAnalysisRate < MinPlaybackRate)

\* the three validated parameters of a generator request are in their ranges
GenerateParametersInRange ==
    /\ req.base_freq \in 80 .. 1000
    /\ req.velocity \in 0 .. 500
    /\ req.sampling_rate \in 50 .. 4000

GenerateAnswered ==
    req.endpoint = "generate-doppler-sound" /\ req.is_json /\ resp /= NoResponse

\* C29: a generate-doppler-sound request whose base frequency, velocity and
\* sampling rate are in [80, 1000], [0, 500] and [50, 4000] is played back at
\* 8000 Hz with was_upsampled true; a request with a parameter outside its
\* range is rejected with a 400 error.
C29_GeneratorRatesAndRejections ==
    GenerateAnswered =>
        IF GenerateParametersInRange
        THEN Succeeded =>
                /\ resp.generation_parameters.playback_sampling_rate = 8000
                /\ resp.wav_rate = 8000
                /\ resp.generation_parameters.was_upsampled = TRUE
        ELSE resp.status = 400

(***************************************************************************)
(* Specification of the length arithmetic: Init draws the inputs from      *)
(* bounded sets and each action applies one of the two code forms.         *)
(***************************************************************************)
CalcRates == {100, 2000, 4000, 6000, 8000, 11025, 16000, 44100, 48000}

CalcLens == 0 .. MaxCalcLen

InitCalc ==
    \E n \in CalcLens, t \in CalcRates, o \in CalcRates :
        /\ t /= o
        /\ calc = [form |-> "input", len |-> n, target |-> t, original |-> o]
        /\ req = NoRequest
        /\ resp = NoResponse
        /\ doppler_available = TRUE
        /\ nan_cast = 0
        /\ files = NoFiles
        /\ proc = NoWorkers
        /\ ecg = NoEcg
        /\ eeg = NoEeg

ComputeByFactor ==
    /\ calc.form = "input"
    /\ calc' = [form |-> "factor", len |-> calc.len, target |-> calc.target,
                original |-> calc.original,
                new_length |->
                    NewLengthByFactor(calc.len, calc.target, calc.original)]
    /\ UNCHANGED <<req, resp, doppler_available, nan_cast, files, proc, ecg, eeg>>

ComputeByDuration ==
    /\ calc.form = "input"
    /\ calc' = [form |-> "duration", len |-> calc.len, target |-> calc.target,
                original |-> calc.original,
                new_length |->
                    NewLengthByDuration(calc.len, calc.target, calc.original)]
    /\ UNCHANGED <<req, resp, doppler_available, nan_cast, files, proc, ecg, eeg>>

NextCalc == ComputeByFactor \/ ComputeByDuration

SpecLen == InitCalc /\ [][NextCalc]_vars

(***************************************************************************)
(* Claims about the length arithmetic                                      *)
(***************************************************************************)
Computed == calc.form \in {"factor", "duration"}

\* C4 as stated: the resampled buffer has round(len * target / original)
\* samples for every length and every pair of positive rates.
C4_RoundedLength ==
    Computed =>
        calc.new_length = RoundDiv(calc.len * calc.target, calc.original)

\* C4, amended: the length is len * target / original with the fraction
\* dropped, never rounded up; where the quotient is a whole number the
\* floating-point product may fall just short of it and give one less.
C4_TruncatedLength ==
    Computed =>
        LET product == calc.len * calc.target
            floor == product \div calc.original
        IN  /\ calc.new_length <= floor
            /\ calc.new_length >= floor - 1
            /\ (product % calc.original /= 0 => calc.new_length = floor)

\* a quotient with a fraction of one half or more, which rounding would raise
C4_Witness ==
    /\ Computed
    /\ 2 * ((calc.len * calc.target) % calc.original) >= calc.original
    /\ calc.new_length = (calc.len * calc.target) \div calc.original
    /\ calc.new_length > 0

(***************************************************************************)
(* Specification of soft_clip alone: an input sample is drawn and the      *)
(* function is applied to it once.                                         *)
(***************************************************************************)
\* largest finite input, in 1 / Scale
MaxClipInput == 37000

\* every value near the threshold, every fifth value beyond, and the
\* non-finite samples
ClipInputs ==
    {Fin(v) : v \in {w \in -MaxClipInput .. MaxClipInput :
                         Abs(w) <= 1500 \/ w % 5 = 0}}
        \cup {NaN, PosInf, NegInf}

InitClip ==
    /\ \E s \in ClipInputs : calc = [form |-> "clip_input", x |-> s]
    /\ req = NoRequest
    /\ resp = NoResponse
    /\ doppler_available = TRUE
    /\ nan_cast = 0
    /\ files = NoFiles
    /\ proc = NoWorkers
    /\ ecg = NoEcg
    /\ eeg = NoEeg

ApplySoftClip ==
    /\ calc.form = "clip_input"
    /\ calc' = [form |-> "soft_clip", x |-> calc.x,
                y |-> SoftClipSample(calc.x)]
    /\ UNCHANGED <<req, resp, doppler_available, nan_cast, files, proc, ecg, eeg>>

NextClip == ApplySoftClip

SpecClip == InitClip /\ [][NextClip]_vars

SoftClipped == calc.form = "soft_clip"

\* C11 as stated: soft_clip is the identity below 0.8, gives exactly 0.8 at
\* 0.8, never decreases for x >= 0, and its magnitude is strictly below 1.0
\* for every input.
C11_SoftClipBelowOne ==
    SoftClipped =>
        /\ calc.y.cls = "fin"
        /\ Abs(calc.y.v) < Scale
        /\ (calc.x.cls = "fin" /\ Abs(calc.x.v) < 800) => calc.y = calc.x
        /\ calc.x = Fin(800) => calc.y = Fin(800)
        /\ (calc.x.cls = "fin" /\ calc.x.v >= 0) =>
               SoftClipSample(Fin(calc.x.v + 1)).v >= calc.y.v

\* C11, amended: soft_clip is the identity below 0.8, gives exactly 0.8 at
\* 0.8 and never decreases for x >= 0; its magnitude never exceeds 1.0, is
\* below 1.0 for every |x| up to 36, and is exactly 1.0 for an infinite
\* input; NaN is returned as NaN.
C11_SoftClipAtMostOne ==
    SoftClipped =>
        /\ calc.x.cls = "nan" <=> calc.y.cls = "nan"
        /\ calc.y.cls /= "inf"
        /\ calc.y.cls = "fin" => Abs(calc.y.v) <= Scale
        /\ (calc.x.cls = "fin" /\ Abs(calc.x.v) <= 36 * Scale) =>
               Abs(calc.y.v) < Scale
        /\ calc.x.cls = "inf" => calc.y = Fin(calc.x.v * Scale)
        /\ (calc.x.cls = "fin" /\ Abs(calc.x.v) < 800) => calc.y = calc.x
        /\ calc.x = Fin(800) => calc.y = Fin(800)
        /\ calc.x = Fin(-800) => calc.y = Fin(-800)
        /\ (calc.x.cls = "fin" /\ calc.x.v >= 0) =>
               /\ SoftClipSample(Fin(calc.x.v + 1)).v >= calc.y.v
               /\ calc.y.v >= Min(calc.x.v, 800)

\* the threshold itself has been clipped
C11_Witness ==
    /\ SoftClipped
    /\ calc.x = Fin(800)
    /\ calc.y = Fin(800)

(***************************************************************************)
(* Specification of the one-second scenario: an upload of 48000 samples at *)
(* 48000 Hz, and shorter ones, handled by the same handlers as above.      *)
(***************************************************************************)
ScenarioLengths == {48, 480}

ScenarioLevels == {0, Scale \div 4, -(Scale \div 2)}

ScenarioTargets == {4000, 6000, 8000, 48000}

\* a constant buffer of n samples of value c / Scale
ConstantBuffer(n, c) == [i \in 1 .. n |-> Fin(c)]

\* the upload of the scenario, and shorter uploads at the same rate
ScenarioUploads(endpoint, modes) ==
    {[endpoint |-> endpoint, file |-> "ok",
      audio |-> ConstantBuffer(48000, Scale \div 4),
      original_sr |-> 48000, target |-> 4000, mode |-> "playback"]}
    \cup
    {[endpoint |-> endpoint, file |-> "ok", audio |-> ConstantBuffer(n, c),
      original_sr |-> 48000, target |-> t, mode |-> m] :
        n \in ScenarioLengths, c \in ScenarioLevels, t \in ScenarioTargets,
        m \in modes}

InitScenario ==
    /\ calc = [form |-> "none"]
    /\ req = NoRequest
    /\ resp = NoResponse
    /\ doppler_available = TRUE
    /\ nan_cast = 0
    /\ files = NoFiles
    /\ proc = NoWorkers
    /\ ecg = NoEcg
    /\ eeg = NoEeg

ScenarioAnalyzeVoice ==
    /\ Idle
    /\ \E r \in ScenarioUploads("analyze-voice", {"playback"}) :
        Handle(r, AnalyzeVoiceResponse(r))

ScenarioGetResampledVoice ==
    /\ Idle
    /\ \E r \in ScenarioUploads("get-resampled-voice", Modes) :
        Handle(r, GetResampledVoiceResponse(r, nan_cast))

ScenarioDroneResampleAudio ==
    /\ Idle
    /\ \E r \in ScenarioUploads("drone-resample-audio", Modes) :
        Handle(r, DroneResampleAudioResponse(r, nan_cast))

ScenarioGetResampledAudio ==
    /\ Idle
    /\ \E r \in ScenarioUploads("get-resampled-audio", {"playback", "download"}) :
        Handle(r, GetResampledAudioResponse(r, nan_cast))

NextScenario ==
    \/ ScenarioAnalyzeVoice
    \/ ScenarioGetResampledVoice
    \/ ScenarioDroneResampleAudio
    \/ ScenarioGetResampledAudio
    \/ Respond

SpecScenario == InitScenario /\ [][NextScenario]_vars

\* the request of the scenario has been answered
ScenarioAnswered ==
    /\ req.endpoint \in ResampleEndpoints
    /\ resp /= NoResponse
    /\ Len(req.audio) = 48000
    /\ req.original_sr = 48000
    /\ req.target = 4000
    /\ req.mode = "playback"

\* C14: 48000 samples at 48000 Hz with target 4000 in playback mode give an
\* analysis buffer of exactly 4000 samples at 4000 Hz, is_aliasing true,
\* nyquist_frequency 2000, a playback rate of 8000 Hz and was_upsampled true.
C14_OneSecondScenario ==
    ScenarioAnswered =>
        /\ resp.status = 200
        /\ Len(AnalysisAudio) = 4000
        /\ ReportedAnalysisRate = 4000
        /\ req.endpoint \in {"analyze-voice", "drone-resample-audio"} =>
               /\ AliasingFlagOf(req.endpoint, resp) = TRUE
               /\ ReportedIsAliasing = TRUE
               /\ \A pair \in ReportedNyquist : pair[1] = 20000
        /\ req.endpoint \in PlaybackEndpoints =>
               /\ resp.wav_rate = 8000
               /\ ReportedPlaybackRate = 8000
               /\ ReportedWasUpsampled = TRUE
               /\ Len(resp.audio_int16) = 8000

C14_Witness ==
    /\ ScenarioAnswered
    /\ req.endpoint = "drone-resample-audio"
    /\ resp.status = 200
    /\ Len(resp.audio_data) = 4000
    /\ resp.sampling_info.nyquist_frequency = 20000
    /\ Len(resp.audio_int16) = 8000

(***************************************************************************)
(* Specification of the temporary files.  Each request thread runs its     *)
(* handler step by step: it saves the upload under a name from             *)
(* tempfile.mkstemp, reads it back, computes, deletes what its return path *)
(* deletes and returns.  The threads share the temporary directory only.   *)
(***************************************************************************)
\* how many names the temporary directory can hold
MaxTempFiles == 2

TempNames == 1 .. MaxTempFiles

\* tempfile.mkstemp(suffix='.wav')
TempPath(n) == [base |-> n, suffix |-> ".wav"]

ResampledPath_Shared(path) == [base |-> 0, suffix |-> ".wav_resampled.wav"]

\* resampled_temp_path = temporary_file_path + "_resampled.wav"
ResampledPath(path) == [base |-> path.base, suffix |-> ".wav_resampled.wav"]

FreshPaths_AnyName(dir) == {TempPath(n) : n \in TempNames}

\* mkstemp creates a file that did not exist before
FreshPaths(dir) == {TempPath(n) : n \in TempNames} \ DOMAIN dir

\* audio_file.save(path), sf.write(path, ...)
WriteFile(dir, path, content) ==
    [q \in DOMAIN dir \cup {path} |-> IF q = path THEN content ELSE dir[q]]

\* if os.path.exists(path): os.unlink(path)
Unlink(dir, paths) == [q \in DOMAIN dir \ paths |-> dir[q]]

ShortClip == <<Fin(Scale \div 2), Fin(-(Scale \div 4))>>

LongClip == <<Fin(0), Fin(Scale \div 4), Fin(Scale \div 2), Fin(-(Scale \div 4))>>

FileUpload(endpoint, a, t) ==
    [endpoint |-> endpoint, file |-> "ok", audio |-> a, original_sr |-> 4000,
     target |-> t, mode |-> "playback"]

VehicleUpload(a, t, x) ==
    [endpoint |-> "analyze-vehicle-sound", file |-> "ok", audio |-> a,
     original_sr |-> 4000, target |-> t, mode |-> "playback", analysis |-> x]

FileRequests ==
    {FileUpload("get-resampled-voice", a, 8000) : a \in {ShortClip, <<>>}}
    \cup {FileUpload("drone-resample-audio", ShortClip, 8000),
          [endpoint |-> "drone-resample-audio", file |-> "badext",
           audio |-> <<>>, original_sr |-> 4000, target |-> 8000,
           mode |-> "playback"]}
    \cup {VehicleUpload(ShortClip, 8000, x) :
            x \in {[error |-> FALSE, source_frequency |-> 3000],
                   [error |-> TRUE, source_frequency |-> 0]}}
    \cup {VehicleUpload(ShortClip, t, NoAnalysis) : t \in {NoTarget, 50}}
    \cup {FileUpload("get-spectrogram", ShortClip, NoTarget),
          FileUpload("get-spectrogram", LongClip, 8000),
          FileUpload("get-spectrogram", <<>>, 8000)}

\* what the saved upload decodes to, and what the analyzer finds in it
Content(r) ==
    [audio |-> r.audio, sr |-> r.original_sr,
     analysis |-> IF r.endpoint = "analyze-vehicle-sound" THEN r.analysis
                  ELSE NoAnalysis]

\* the request as the handler sees it after sf.read / librosa.load of its file
WithContent(r, content) ==
    [r EXCEPT !.audio = content.audio, !.original_sr = content.sr]

\* the handler run on its own, from the request to the response
RunAlone(r) ==
    CASE r.endpoint = "get-resampled-voice" ->
            GetResampledVoiceResponse(r, nan_cast)
      [] r.endpoint = "drone-resample-audio" ->
            DroneResampleAudioResponse(r, nan_cast)
      [] r.endpoint = "analyze-vehicle-sound" ->
            AnalyzeVehicleSoundResponse(r, doppler_available)
      [] r.endpoint = "get-spectrogram" -> GetSpectrogramResponse(r)

\* the returns that come before tempfile.mkstemp: the file-part checks, and
\* the range check of drone.py 262-264 and doppler.py 191-195
RejectedBeforeTemp(r) ==
    \/ r.file /= "ok"
    \/ /\ r.endpoint \in {"drone-resample-audio", "analyze-vehicle-sound"}
       /\ r.target /= NoTarget
       /\ (r.target < 100 \/ r.target > 48000)

\* the returns between mkstemp and the cleanup that unlink nothing:
\* doppler.py 229-233 (analyzer unavailable) and 467-472 (spectrogram failure)
ReturnsWithoutCleanup(r, response) ==
    /\ response.status = 500
    /\ \/ /\ r.endpoint = "analyze-vehicle-sound"
          /\ response.error = "Doppler analyzer not available"
       \/ /\ r.endpoint = "get-spectrogram"
          /\ response.error = "Spectrogram generation failed"

\* the analysis of doppler.py 209-226 resamples and writes a second file
WritesResampledCopy(r) ==
    /\ r.endpoint = "analyze-vehicle-sound"
    /\ r.target /= NoTarget
    /\ r.target /= r.original_sr
    /\ ~ResampleRaises(r.audio, FactorLength(Len(r.audio), r.target, r.original_sr))

\* the files a handler's cleanup looks for
OwnPaths(w) ==
    IF w.req.endpoint = "analyze-vehicle-sound"
    THEN {w.path, ResampledPath(w.path)} ELSE {w.path}

InitFiles ==
    /\ calc = [form |-> "none"]
    /\ req = NoRequest
    /\ resp = NoResponse
    /\ doppler_available \in BOOLEAN
    /\ nan_cast = 0
    /\ files = NoFiles
    /\ proc = NoWorkers
    /\ ecg = NoEcg
    /\ eeg = NoEeg

Step(t, w) ==
    /\ proc' = [proc EXCEPT ![t] = w]
    /\ UNCHANGED <<calc, req, resp, doppler_available, nan_cast, ecg, eeg>>

\* the request arrives: validation, then mkstemp and audio_file.save
ReceiveUpload(t) ==
    /\ proc[t].pc = "idle"
    /\ \E r \in FileRequests :
        IF RejectedBeforeTemp(r)
        THEN /\ Step(t, [pc |-> "returned", req |-> r, path |-> NoPath,
                         loaded |-> NoContent, resp |-> RunAlone(r)])
             /\ UNCHANGED files
        ELSE \E path \in FreshPaths(files) :
             /\ files' = WriteFile(files, path, Content(r))
             /\ Step(t, [pc |-> "saved", req |-> r, path |-> path,
                         loaded |-> NoContent, resp |-> NoResponse])

\* sf.read(temporary_file_path), librosa.load(temporary_file_path, sr=None)
ReadUpload(t) ==
    /\ proc[t].pc = "saved"
    /\ IF proc[t].path \in DOMAIN files
       THEN Step(t, [proc[t] EXCEPT !.pc = "loaded",
                                    !.loaded = files[proc[t].path]])
       ELSE Step(t, [proc[t] EXCEPT !.pc = "failed",
                                    !.resp = Failure(500, "read")])
    /\ UNCHANGED files

\* the handler's computation on the buffer it read
Process(t) ==
    /\ proc[t].pc = "loaded"
    /\ LET r == WithContent(proc[t].req, proc[t].loaded)
           response == RunAlone(r)
           copy == [audio |-> Resample(r.audio,
                                FactorLength(Len(r.audio), r.target, r.original_sr)),
                    sr |-> r.target, analysis |-> proc[t].loaded.analysis]
       IN  /\ files' = IF WritesResampledCopy(r)
                       THEN WriteFile(files, ResampledPath(proc[t].path), copy)
                       ELSE files
           /\ IF ReturnsWithoutCleanup(r, response)
              THEN Step(t, [proc[t] EXCEPT !.pc = "returned", !.resp = response])
              ELSE IF response.status = 500
              THEN Step(t, [proc[t] EXCEPT !.pc = "failed", !.resp = response])
              ELSE IF r.endpoint = "analyze-vehicle-sound"
              THEN Step(t, [proc[t] EXCEPT !.pc = "analysis"])
              ELSE Step(t, [proc[t] EXCEPT !.pc = "cleanup", !.resp = response])

\* doppler_analyzer.analyze_audio_signal(analysis_file_path)
Analyze(t) ==
    /\ proc[t].pc = "analysis"
    /\ LET r == WithContent(proc[t].req, proc[t].loaded)
           analysis_file_path == IF WritesResampledCopy(r)
                                 THEN ResampledPath(proc[t].path)
                                 ELSE proc[t].path
       IN  IF analysis_file_path \in DOMAIN files
           THEN Step(t, [proc[t] EXCEPT
                    !.pc = "cleanup",
                    !.resp = RunAlone([r EXCEPT
                        !.analysis = files[analysis_file_path].analysis])])
           ELSE Step(t, [proc[t] EXCEPT !.pc = "failed",
                                        !.resp = Failure(500, "read")])
    /\ UNCHANGED files

\* the os.unlink calls before the final return and in the except block
Cleanup(t) ==
    /\ proc[t].pc \in {"cleanup", "failed"}
    /\ files' = Unlink(files, OwnPaths(proc[t]))
    /\ Step(t, [proc[t] EXCEPT !.pc = "returned"])

\* the response leaves; the thread takes the next request
Return(t) ==
    /\ proc[t].pc = "returned"
    /\ Step(t, IdleWorker)
    /\ UNCHANGED files

NextFiles ==
    \/ \E t \in Workers : ReceiveUpload(t)
    \/ \E t \in Workers : ReadUpload(t)
    \/ \E t \in Workers : Process(t)
    \/ \E t \in Workers : Analyze(t)
    \/ \E t \in Workers : Cleanup(t)
    \/ \E t \in Workers : Return(t)

SpecFiles == InitFiles /\ [][NextFiles]_vars

\* the threads whose response is computed
Answered(t) == proc[t].pc \in {"cleanup", "returned"}

\* the threads that hold an upload in the temporary directory
HoldsUpload(t) == proc[t].pc \in {"saved", "loaded", "analysis", "cleanup", "failed"}

\* C17: the response to a resample, playback or analysis request is a function
\* of the request alone: whatever requests were served before it and whatever
\* they left in the temporary directory, two requests with the same inputs
\* get the same response.
C17_SameRequestSameResponse ==
    \A t \in Workers, u \in Workers :
        (/\ proc[t].pc = "returned"
         /\ proc[u].pc = "returned"
         /\ proc[t].req = proc[u].req)
        => proc[t].resp = proc[u].resp

\* the same uploaded request answered twice, once while files of earlier
\* requests are still lying in the temporary directory
C17_Witness ==
    /\ proc[1].pc = "returned"
    /\ proc[2].pc = "returned"
    /\ proc[1].req = proc[2].req
    /\ proc[1].req.endpoint \in {"get-resampled-voice", "drone-resample-audio"}
    /\ proc[1].path /= NoPath
    /\ proc[1].path /= proc[2].path
    /\ proc[1].resp.status = 200
    /\ files /= NoFiles

\* C18: two requests served side by side never share a temporary file or a
\* buffer: their upload paths differ, each reads back its own upload, and
\* under every interleaving each response is the one the handler gives when
\* it runs alone.
C18_ConcurrentRequestsIsolated ==
    \A t \in Workers :
        /\ \A u \in Workers \ {t} :
            (HoldsUpload(t) /\ HoldsUpload(u)) =>
                OwnPaths(proc[t]) \cap OwnPaths(proc[u]) = {}
        /\ proc[t].pc \in {"loaded", "analysis", "cleanup"} =>
            proc[t].loaded = Content(proc[t].req)
        /\ Answered(t) => proc[t].resp = RunAlone(proc[t].req)

\* two different vehicle analyses in flight together, each with its upload
\* and its resampled copy on disk, both answered
C18_Witness ==
    /\ proc[1].pc = "cleanup"
    /\ proc[2].pc = "cleanup"
    /\ proc[1].req /= proc[2].req
    /\ WritesResampledCopy(proc[1].req)
    /\ WritesResampledCopy(proc[2].req)
    /\ OwnPaths(proc[1]) \cup OwnPaths(proc[2]) \subseteq DOMAIN files
    /\ proc[1].resp.status = 200

\* C19: when a request returns, none of the temporary files it created
\* (the uploaded copy, the resampled copy) is left in the directory.
C19_TempFilesDeletedOnReturn ==
    [][\A t \in Workers :
        (proc[t].pc /= "returned" /\ proc'[t].pc = "returned"
            /\ proc'[t].path /= NoPath)
        => OwnPaths(proc'[t]) \cap DOMAIN files' = {}]_vars

(***************************************************************************)
(* ecg.py: classification of the six model outputs.  Probabilities are     *)
(* sigmoid outputs, carried in thousandths.                                *)
(***************************************************************************)
ModelLabels == <<"1dAVb", "RBBB", "LBBB", "SB", "AF", "ST">>

\* NORMAL_THRESHOLD = 0.2
NormalThreshold == (2 * Scale) \div 10

ConfidenceOf(p) ==
    IF p > (7 * Scale) \div 10 THEN "High"
    ELSE IF p > (4 * Scale) \div 10 THEN "Medium" ELSE "Low"

RECURSIVE MaxScan_LastWins(_, _, _)
MaxScan_LastWins(probs, i, best) ==
    IF i > Len(probs) THEN best
    ELSE IF probs[i] >= best.max_prob
        THEN MaxScan_LastWins(probs, i + 1,
                 [max_prob |-> probs[i], max_condition |-> ModelLabels[i]])
        ELSE MaxScan_LastWins(probs, i + 1, best)

\* the loop of lines 201-213: if prob_float > max_prob: max_prob, max_condition = ...
RECURSIVE MaxScan(_, _, _)
MaxScan(probs, i, best) ==
    IF i > Len(probs) THEN best
    ELSE IF probs[i] > best.max_prob
        THEN MaxScan(probs, i + 1,
                 [max_prob |-> probs[i], max_condition |-> ModelLabels[i]])
        ELSE MaxScan(probs, i + 1, best)

\* predictions.sort(key=probability, reverse=True): a stable sort, so equal
\* probabilities keep the order of MODEL_LABELS
SortedPredictions(probs) ==
    LET before(j, k) == probs[j] > probs[k] \/ (probs[j] = probs[k] /\ j < k)
        rank(k) == 1 + Cardinality({j \in DOMAIN probs : before(j, k)})
    IN  [n \in DOMAIN probs |->
            LET k == CHOOSE k \in DOMAIN probs : rank(k) = n
            IN  [condition |-> ModelLabels[k], probability |-> probs[k],
                 confidence |-> ConfidenceOf(probs[k])]]

\* classify_with_ecg_model, from the model's probabilities on
ClassifyWithEcgModel(probs) ==
    LET best == MaxScan(probs, 1, [max_prob |-> 0, max_condition |-> ""])
        predictions == SortedPredictions(probs)
        is_normal ==
            \A n \in DOMAIN predictions :
                predictions[n].probability < NormalThreshold
    IN  [predictions |-> predictions,
         primary_diagnosis |->
             IF is_normal THEN "Normal ECG" ELSE best.max_condition,
         is_abnormal |-> ~is_normal,
         is_normal |-> is_normal,
         confidence |-> IF is_normal THEN Scale - predictions[1].probability
                        ELSE best.max_prob]

ProbLevels == {0, NormalThreshold - 1, NormalThreshold, (9 * Scale) \div 10}

InitClassify ==
    /\ \E probs \in [DOMAIN ModelLabels -> ProbLevels] :
        calc = [form |-> "probs", probs |-> probs]
    /\ req = NoRequest
    /\ resp = NoResponse
    /\ doppler_available = TRUE
    /\ nan_cast = 0
    /\ files = NoFiles
    /\ proc = NoWorkers
    /\ ecg = NoEcg
    /\ eeg = NoEeg

ClassifyEcg ==
    /\ calc.form = "probs"
    /\ calc' = [form |-> "classified", probs |-> calc.probs,
                result |-> ClassifyWithEcgModel(calc.probs)]
    /\ UNCHANGED <<req, resp, doppler_available, nan_cast, files, proc, ecg, eeg>>

NextClassify == ClassifyEcg

SpecClassify == InitClassify /\ [][NextClassify]_vars

Classified == calc.form = "classified"

\* C22: the result is 'Normal ECG' (is_normal, not is_abnormal) exactly when
\* all six probabilities are below 0.2; otherwise it is abnormal and
\* primary_diagnosis is the label of the highest probability, the earliest
\* such label in model order, which is also the first of the predictions
\* sorted by descending probability.
C22_NormalIffAllBelowThreshold ==
    Classified =>
        LET probs == calc.probs
            result == calc.result
            all_below == \A k \in DOMAIN probs : probs[k] < NormalThreshold
            highest == CHOOSE k \in DOMAIN probs :
                         /\ \A j \in DOMAIN probs : probs[j] <= probs[k]
                         /\ \A j \in 1 .. k - 1 : probs[j] < probs[k]
        IN  /\ result.is_normal = all_below
            /\ result.is_abnormal = ~all_below
            /\ all_below => result.primary_diagnosis = "Normal ECG"
            /\ ~all_below =>
                /\ result.primary_diagnosis = ModelLabels[highest]
                /\ result.predictions[1].condition = result.primary_diagnosis
            /\ \A n \in 1 .. Len(result.predictions) - 1 :
                result.predictions[n].probability
                    >= result.predictions[n + 1].probability

\* an abnormal result whose highest probability is shared by two labels
C22_Witness ==
    /\ Classified
    /\ calc.result.is_abnormal
    /\ calc.result.primary_diagnosis = "RBBB"
    /\ calc.probs[2] = calc.probs[5]
    /\ calc.probs[2] = (9 * Scale) \div 10

(***************************************************************************)
(* ecg.py and eeg.py: the parsers and the module-level caches.  A CSV file *)
(* is its header names and, per column, its cells (NaN for an empty cell). *)
(***************************************************************************)
ExpectedLeads ==
    <<"I", "II", "III", "AVR", "AVL", "AVF", "V1", "V2", "V3", "V4", "V5", "V6">>

\* c.strip().upper() on the header names that occur in the uploads
NormalizeName(c) ==
    CASE c = " ii" -> "II"
      [] c = "v6 " -> "V6"
      [] OTHER -> c

\* Series.dropna().values.tolist()
DropNa(cells) == SelectSeq(cells, LAMBDA c : c.cls /= "nan")

Zeros(n) == [i \in 1 .. n |-> Fin(0)]

PadTo_NoPadding(lead, n) == lead

\* leads[i].extend([0] * padding_needed)
PadTo(lead, n) == lead \o Zeros(n - Len(lead))

\* number of data rows of the frame
Rows(file) == IF file.columns = <<>> THEN 0 ELSE Len(file.columns[1].cells)

\* df[lead_name] after the selection, the zero fill of missing leads and dropna
LeadOf(file, lead_name) ==
    LET found == {i \in DOMAIN file.columns :
                     NormalizeName(file.columns[i].name) = lead_name}
    IN  IF found = {} THEN Zeros(Rows(file))
        ELSE DropNa(file.columns[CHOOSE i \in found : TRUE].cells)

RECURSIVE MaxLen_(_, _)
MaxLen_(seqs, k) ==
    IF k = 0 THEN 0 ELSE Max(Len(seqs[k]), MaxLen_(seqs, k - 1))

\* max(len(lead) for lead in leads)
MaxLength(seqs) == MaxLen_(seqs, Len(seqs))

\* theta = 360 * (time / max(time)) if max(time) > 0 else zeros, to 1 / Scale
\* of a degree; max(time) is NaN for a rate of 0 and NaN > 0 is False
ThetaOf(max_length, sampling_rate) ==
    IF sampling_rate > 0 /\ max_length > 1
    THEN [i \in 1 .. max_length |->
             (360 * Scale * (i - 1)) \div (max_length - 1)]
    ELSE [i \in 1 .. max_length |-> 0]

\* parse_ecg_csv.  stored: the three globals were assigned (lines 118-125);
\* ok: the function returned its dictionary.  pd.read_csv raises on a file
\* without columns, max(time) on an empty frame, and max_length /
\* sampling_rate (line 137, after the assignments) on a rate of 0.
ParseEcgCsv(file, sampling_rate) ==
    LET raw == [k \in DOMAIN ExpectedLeads |-> LeadOf(file, ExpectedLeads[k])]
        max_length == MaxLength(raw)
        leads == [k \in DOMAIN ExpectedLeads |-> PadTo(raw[k], max_length)]
        theta == ThetaOf(max_length, sampling_rate)
    IN  IF file.columns = <<>> \/ max_length = 0
            THEN [stored |-> FALSE, ok |-> FALSE]
        ELSE [stored |-> TRUE,
              ok |-> sampling_rate /= 0,
              cache |-> [data |-> [loaded |-> TRUE, leads |-> leads,
                                   lead_names |-> ExpectedLeads,
                                   max_length |-> max_length],
                         theta |-> [loaded |-> TRUE, values |-> theta],
                         rate |-> sampling_rate],
              result |-> [leads |-> leads,
                          sampling_rate |-> sampling_rate,
                          lead_names |-> ExpectedLeads,
                          samples_per_lead |-> max_length,
                          theta |-> theta]]

\* heart rate, RR interval, beats and signal quality of a recording of at most
\* MaxEcgRows samples: no sample exceeds mean + 2 std, so no R peak is found,
\* and no lead is longer than 10 samples
EcgAnalysis(leads, sampling_rate) ==
    [heart_rate |-> 0, rr_interval |-> 0, signal_quality |-> 50,
     total_beats |-> 0]

EcgFilePartError(r) ==
    IF r.file = "missing" THEN [status |-> 400, error |-> "No file provided"]
    ELSE IF r.file = "noname" THEN [status |-> 400, error |-> "No file selected"]
    ELSE [status |-> 400, error |-> "Invalid file type"]

\* POST /api/ecg/upload: the cache after the request and the response
UploadEcg(r, cache) ==
    IF r.file /= "ok" THEN [cache |-> cache, response |-> EcgFilePartError(r)]
    ELSE
    LET parsed == ParseEcgCsv(r.csv, r.sampling_rate)
        after == IF parsed.stored THEN parsed.cache ELSE cache
    IN  IF ~parsed.ok
            THEN [cache |-> after,
                  response |-> [status |-> 400,
                                error |-> "Failed to parse ECG file"]]
        ELSE [cache |-> after,
              response |-> [status |-> 200,
                            data |-> parsed.result,
                            analysis |-> EcgAnalysis(parsed.result.leads,
                                                     r.sampling_rate)]]

\* POST /api/ecg/analyze
AnalyzeEcg(r, cache) ==
    IF r.file /= "ok" THEN [cache |-> cache, response |-> EcgFilePartError(r)]
    ELSE
    LET parsed == ParseEcgCsv(r.csv, r.sampling_rate)
        after == IF parsed.stored THEN parsed.cache ELSE cache
    IN  IF ~parsed.ok
            THEN [cache |-> after,
                  response |-> [status |-> 400,
                                error |-> "Failed to parse ECG file"]]
        ELSE [cache |-> after,
              response |->
                  [status |-> 200,
                   analysis |-> EcgAnalysis(parsed.result.leads, r.sampling_rate),
                   sampling_rate |-> r.sampling_rate,
                   data_summary |->
                       [leads_count |-> Len(parsed.result.leads),
                        samples_per_lead |-> Len(parsed.result.leads[1]),
                        lead_names |-> parsed.result.lead_names]]]

\* seq[a:b] for 0 <= a
PySlice(seq, a, b) ==
    LET stop == Min(b, Len(seq))
    IN  IF a >= stop THEN <<>> ELSE SubSeq(seq, a + 1, stop)

FixedStart_Unclamped(start, window_samples, max_length) == start

\* if start + window_samples > max_length: start = max(0, max_length - window_samples)
FixedStart(start, window_samples, max_length) ==
    IF start + window_samples > max_length
    THEN Max(0, max_length - window_samples) ELSE start

\* GET /api/ecg/polar-data/<mode>?current_time=...; current_time in quarters
\* of a second.  start and end are the handler's locals, end_idx the slice end.
GetPolarData(mode, quarters, cache) ==
    IF cache.data = NoData \/ cache.theta = NoData
        THEN [status |-> 400,
              error |-> "No ECG data loaded. Please upload a file first."]
    ELSE
    LET window_samples == cache.rate * 2
        max_length == cache.data.max_length
        start == IF mode = "fixed"
                 THEN FixedStart(Max(0, TruncDiv(quarters * cache.rate, 4)),
                                 window_samples, max_length)
                 ELSE 0
        end == IF mode = "fixed" THEN start + window_samples ELSE max_length
    IN  [status |-> 200, start |-> start, end |-> end,
         data |-> [k \in DOMAIN cache.data.lead_names |->
                      LET end_idx == Min(end, Len(cache.data.leads[k]))
                      IN  [end_idx |-> end_idx,
                           r |-> PySlice(cache.data.leads[k], start, end_idx),
                           theta |-> PySlice(cache.theta.values, start, end_idx)]]]

\* GET /api/ecg/statistics: max_length / sampling_rate_global raises on 0
GetEcgStatistics(cache) ==
    IF cache.data = NoData THEN [status |-> 400, error |-> "No ECG data loaded"]
    ELSE IF cache.rate = 0 THEN [status |-> 500, error |-> "division by zero"]
    ELSE [status |-> 200,
          analysis |-> EcgAnalysis(cache.data.leads, cache.rate),
          duration |-> (Scale * cache.data.max_length) \div cache.rate,
          sampling_rate |-> cache.rate,
          leads_available |-> cache.data.lead_names]

\* parse_eeg_csv: the first column is the time, the others are channels
ParseEegCsv(file, sampling_rate) ==
    IF Len(file.columns) < 2 THEN [stored |-> FALSE, ok |-> FALSE]
    ELSE
    LET names == [k \in 1 .. Len(file.columns) - 1 |-> file.columns[k + 1].name]
        raw == [k \in DOMAIN names |-> DropNa(file.columns[k + 1].cells)]
        max_length == MaxLength(raw)
        channels == [k \in DOMAIN names |-> PadTo(raw[k], max_length)]
    IN  [stored |-> TRUE,
         ok |-> sampling_rate /= 0,
         cache |-> [data |-> [loaded |-> TRUE, channels |-> channels,
                              channel_names |-> names,
                              time_data |-> file.columns[1].cells,
                              max_length |-> max_length],
                    rate |-> sampling_rate],
         result |-> [channels |-> channels, channel_names |-> names,
                     sampling_rate |-> sampling_rate,
                     samples_per_channel |-> max_length]]

\* POST /api/eeg/upload
UploadEeg(r, cache) ==
    IF r.file /= "ok" THEN [cache |-> cache, response |-> EcgFilePartError(r)]
    ELSE
    LET parsed == ParseEegCsv(r.csv, r.sampling_rate)
        after == IF parsed.stored THEN parsed.cache ELSE cache
    IN  IF ~parsed.ok
            THEN [cache |-> after,
                  response |-> [status |-> 400,
                                error |-> "Failed to parse EEG file"]]
        ELSE [cache |-> after,
              response |-> [status |-> 200, data |-> parsed.result]]

NoEegData ==
    [status |-> 400, error |-> "No EEG data loaded. Please upload a file first."]

\* POST /api/eeg/classify, GET /api/eeg/get_polar_data/fixed,
\* POST /api/eeg/get_recurrence_data (without a selection), GET /api/eeg/channels
ReadEeg(endpoint, cache) ==
    IF cache.data = NoData
        THEN IF endpoint = "eeg-channels"
             THEN [status |-> 400, error |-> "No EEG data loaded"]
             ELSE NoEegData
    ELSE IF endpoint = "eeg-channels"
        THEN [status |-> 200, channels |-> cache.data.channel_names,
              count |-> Len(cache.data.channel_names)]
    ELSE IF endpoint = "eeg-recurrence"
        THEN [status |-> 400, error |-> "No selection data provided"]
    ELSE IF endpoint = "eeg-classify"
        THEN IF cache.rate = 0
             THEN [status |-> 500, error |-> "division by zero"]
             ELSE [status |-> 200,
                   channel_count |-> Len(cache.data.channels),
                   channel_names |-> cache.data.channel_names,
                   sampling_rate |-> cache.rate]
    ELSE [status |-> 200,
          data |-> [k \in DOMAIN cache.data.channels |->
                       PySlice(cache.data.channels[k], 0,
                               Min(cache.data.max_length, cache.rate * 10))]]

(***************************************************************************)
(* Specification of the ECG and EEG caches: one request at a time, as in   *)
(* Spec, on small recordings.                                              *)
(***************************************************************************)
\* longest recording, in rows
MaxEcgRows == 5

Column(name, cells) == [name |-> name, cells |-> cells]

Ramp(n) == [i \in 1 .. n |-> Fin(i * Scale)]

EcgCsvFiles ==
    {[columns |-> <<Column(" ii", Ramp(MaxEcgRows)),
                    Column("I", [Ramp(MaxEcgRows) EXCEPT ![2] = NaN])>>],
     [columns |-> <<Column("X", Ramp(3)),
                    Column("v6 ", <<NaN, Fin(7 * Scale), NaN>>)>>],
     [columns |-> <<Column("I", <<>>)>>],
     [columns |-> [k \in DOMAIN ExpectedLeads |->
                      Column(ExpectedLeads[13 - k], <<Fin(k * Scale)>>)]],
     [columns |-> <<>>]}

CacheRates == {0, 1, 2}

EcgUploads(endpoint) ==
    {[endpoint |-> endpoint, file |-> "ok", csv |-> f, sampling_rate |-> sr] :
        f \in EcgCsvFiles, sr \in CacheRates}
    \cup {[endpoint |-> endpoint, file |-> p, csv |-> [columns |-> <<>>],
           sampling_rate |-> 1] : p \in {"missing", "noname", "badext"}}

\* current_time, in quarters of a second
PolarTimes == {-4, 0, 5, 8, 400}

PolarRequests ==
    {[endpoint |-> "ecg-polar-data", mode |-> m, current_time |-> q] :
        m \in {"fixed", "cumulative"}, q \in PolarTimes}

EegCsvFiles ==
    {[columns |-> <<Column("time", Ramp(3)), Column("Fp1", Ramp(3)),
                    Column("Cz", <<Fin(Scale), NaN, Fin(Scale)>>)>>],
     [columns |-> <<Column("time", Ramp(2)), Column("O1", Ramp(2))>>],
     [columns |-> <<Column("time", Ramp(2))>>]}

EegUploads ==
    {[endpoint |-> "eeg-upload", file |-> "ok", csv |-> f, sampling_rate |-> sr] :
        f \in EegCsvFiles, sr \in CacheRates}
    \cup {[endpoint |-> "eeg-upload", file |-> "badext",
           csv |-> [columns |-> <<>>], sampling_rate |-> 1]}

EegReaders == {"eeg-classify", "eeg-polar-data", "eeg-recurrence", "eeg-channels"}

InitCache ==
    /\ calc = [form |-> "none"]
    /\ req = NoRequest
    /\ resp = NoResponse
    /\ doppler_available = TRUE
    /\ nan_cast = 0
    /\ files = NoFiles
    /\ proc = NoWorkers
    /\ ecg = NoEcg
    /\ eeg = NoEeg

HandleCached(r, response, ecg_after, eeg_after) ==
    /\ req' = r
    /\ resp' = response
    /\ ecg' = ecg_after
    /\ eeg' = eeg_after
    /\ UNCHANGED <<calc, doppler_available, nan_cast, files, proc>>

EcgUpload ==
    /\ Idle
    /\ \E r \in EcgUploads("ecg-upload") :
        LET out == UploadEcg(r, ecg)
        IN  HandleCached(r, out.response, out.cache, eeg)

EcgAnalyze ==
    /\ Idle
    /\ \E r \in EcgUploads("ecg-analyze") :
        LET out == AnalyzeEcg(r, ecg)
        IN  HandleCached(r, out.response, out.cache, eeg)

EcgPolarData ==
    /\ Idle
    /\ \E r \in PolarRequests :
        HandleCached(r, GetPolarData(r.mode, r.current_time, ecg), ecg, eeg)

EcgStatistics ==
    /\ Idle
    /\ HandleCached([endpoint |-> "ecg-statistics"], GetEcgStatistics(ecg), ecg, eeg)

EegUpload ==
    /\ Idle
    /\ \E r \in EegUploads :
        LET out == UploadEeg(r, eeg)
        IN  HandleCached(r, out.response, ecg, out.cache)

EegRead ==
    /\ Idle
    /\ \E e \in EegReaders :
        HandleCached([endpoint |-> e], ReadEeg(e, eeg), ecg, eeg)

\* POST /api/eeg/reset
EegReset ==
    /\ Idle
    /\ HandleCached([endpoint |-> "eeg-reset"],
                    [status |-> 200, message |-> "EEG data reset successfully"],
                    ecg, NoEeg)

NextCache ==
    \/ EcgUpload
    \/ EcgAnalyze
    \/ EcgPolarData
    \/ EcgStatistics
    \/ EegUpload
    \/ EegRead
    \/ EegReset
    \/ Respond

SpecCache == InitCache /\ [][NextCache]_vars

\* an upload was parsed and answered with its dataset
ParsedEcg == req.endpoint = "ecg-upload" /\ resp.status = 200

\* the columns of the uploaded file that carry the lead
ColumnsOf(lead_name) ==
    {i \in DOMAIN req.csv.columns :
        NormalizeName(req.csv.columns[i].name) = lead_name}

\* C23: a successful ECG parse returns exactly 12 leads in the order I, II,
\* III, AVR, AVL, AVF, V1..V6, whatever columns the file has and in whatever
\* order; a lead missing from the file is all zeros, a lead of the file starts
\* with that column's values; all leads are as long as samples_per_lead and
\* as theta.
C23_TwelveLeadsInOrder ==
    ParsedEcg =>
        LET d == resp.data
        IN  /\ Len(d.leads) = 12
            /\ d.lead_names = ExpectedLeads
            /\ Len(d.theta) = d.samples_per_lead
            /\ \A k \in DOMAIN d.leads :
                /\ Len(d.leads[k]) = d.samples_per_lead
                /\ ColumnsOf(ExpectedLeads[k]) = {} =>
                       d.leads[k] = Zeros(d.samples_per_lead)
                /\ \A i \in ColumnsOf(ExpectedLeads[k]) :
                       LET values == DropNa(req.csv.columns[i].cells)
                       IN  /\ Len(values) <= Len(d.leads[k])
                           /\ SubSeq(d.leads[k], 1, Len(values)) = values

\* a file with lead II before lead I and an empty cell: ten leads are filled
\* in and lead I is padded
C23_Witness ==
    /\ ParsedEcg
    /\ Len(req.csv.columns) = 2
    /\ req.csv.columns[1].name = " ii"
    /\ resp.data.samples_per_lead = MaxEcgRows
    /\ resp.data.leads[1][MaxEcgRows] = Fin(0)
    /\ resp.data.leads[2] = Ramp(MaxEcgRows)

FailedToParse(response) ==
    /\ response.status = 400
    /\ response.error \in {"Failed to parse ECG file", "Failed to parse EEG file"}

\* C24: an ECG or EEG upload that is answered 'Failed to parse' leaves the
\* cached dataset and the cached sampling rate as they were before the
\* request, for every input, a sampling_rate of 0 included.
C24_RejectedUploadKeepsCache ==
    [][FailedToParse(resp') => (ecg' = ecg /\ eeg' = eeg)]_vars

SuccessfulEcgParse(r, response) ==
    r.endpoint \in {"ecg-upload", "ecg-analyze"} /\ response.status = 200

\* C25: the cached ECG dataset is always the one of the most recent
\* successful parse, reached through /upload or through /analyze: the cache
\* changes only by a successful parse, and after one it holds that parse's
\* leads, theta and sampling rate.
C25_CacheIsLastSuccessfulParse ==
    /\ [](SuccessfulEcgParse(req, resp) =>
            ecg = ParseEcgCsv(req.csv, req.sampling_rate).cache)
    /\ [][ecg' /= ecg => SuccessfulEcgParse(req', resp')]_vars

\* C26: while no EEG dataset has been uploaded successfully since the start
\* or since the last /reset, /classify, /get_polar_data, /get_recurrence_data
\* and /channels answer 'No EEG data loaded': the empty cache is only filled
\* by a successful upload, an empty cache gives the error, and /reset leaves
\* the cache empty with the sampling rate 256.
C26_EegCacheLifecycle ==
    /\ []((req.endpoint \in EegReaders /\ eeg.data = NoData) =>
            (resp.status = 400 /\ resp.error \in
                {"No EEG data loaded", NoEegData.error}))
    /\ [](req.endpoint = "eeg-reset" => (eeg.data = NoData /\ eeg.rate = 256))
    /\ [][(eeg.data = NoData /\ eeg'.data /= NoData) =>
            (req'.endpoint = "eeg-upload" /\ resp'.status = 200)]_vars

\* /polar-data answered in fixed mode from a cache with a positive rate
FixedWindow ==
    /\ req.endpoint = "ecg-polar-data"
    /\ req.mode = "fixed"
    /\ resp.status = 200
    /\ ecg.rate > 0

\* the requested window [int(current_time * rate), + 2 * rate) passes the end
PastTheEnd ==
    Max(0, TruncDiv(req.current_time * ecg.rate, 4)) + 2 * ecg.rate
        > ecg.data.max_length

\* C27 as stated: in fixed mode with a positive rate the handler's window
\* satisfies 0 <= start <= end <= max_length, holds at most 2 * rate samples
\* with r and theta of equal length, and a window that would pass the end is
\* the last 2 seconds of the data.
C27_WindowWithinData ==
    FixedWindow =>
        /\ 0 <= resp.start
        /\ resp.start <= resp.end
        /\ resp.end <= ecg.data.max_length
        /\ \A k \in DOMAIN resp.data :
            /\ Len(resp.data[k].r) <= 2 * ecg.rate
            /\ Len(resp.data[k].r) = Len(resp.data[k].theta)
        /\ PastTheEnd =>
            /\ resp.end = ecg.data.max_length
            /\ resp.end - resp.start = 2 * ecg.rate

\* C27, amended: the slice that is returned, [start, min(end, max_length)),
\* lies within the data, holds at most 2 * rate samples with r and theta of
\* equal length, and a window that would pass the end is the last 2 seconds
\* of the data, or all of it when the recording is shorter than 2 seconds.
C27_SliceWithinData ==
    FixedWindow =>
        /\ 0 <= resp.start
        /\ \A k \in DOMAIN resp.data :
            LET w == resp.data[k]
            IN  /\ resp.start <= w.end_idx
                /\ w.end_idx <= ecg.data.max_length
                /\ w.end_idx = Min(resp.end, ecg.data.max_length)
                /\ Len(w.r) = w.end_idx - resp.start
                /\ Len(w.r) <= 2 * ecg.rate
                /\ Len(w.r) = Len(w.theta)
                /\ PastTheEnd =>
                    /\ w.end_idx = ecg.data.max_length
                    /\ resp.start = Max(0, ecg.data.max_length - 2 * ecg.rate)

\* a request far beyond the end of the longest recording at 1 Hz: the last
\* 2 seconds
C27_Witness ==
    /\ FixedWindow
    /\ PastTheEnd
    /\ req.current_time = 400
    /\ ecg.rate = 1
    /\ resp.start = MaxEcgRows - 2
    /\ Len(resp.data[1].r) = 2
    /\ resp.data[2].r = SubSeq(Ramp(MaxEcgRows), MaxEcgRows - 1, MaxEcgRows)

(***************************************************************************)
(* A reader concurrent with an upload.  The development server answers     *)
(* each request on a thread of its own (app.py 139), and parse_ecg_csv     *)
(* assigns ecg_data_global, theta_global and sampling_rate_global in three *)
(* statements (ecg.py 118-125); get_polar_data and get_statistics read     *)
(* the three globals without a lock.  The upload is worker Uploader of     *)
(* proc, one step per assignment; the reader is req and resp and reads     *)
(* the globals at once, which leaves its own interleavings out.            *)
(***************************************************************************)
Uploader == CHOOSE t \in Workers : \A u \in Workers : t <= u

InitRace ==
    /\ calc = [form |-> "none"]
    /\ req = NoRequest
    /\ resp = NoResponse
    /\ doppler_available = TRUE
    /\ nan_cast = 0
    /\ files = NoFiles
    /\ proc = NoWorkers
    /\ ecg = NoEcg
    /\ eeg = NoEeg

UploadStep(pc, r, response, ecg_after) ==
    /\ proc' = [proc EXCEPT ![Uploader] =
                    [pc |-> pc, req |-> r, path |-> NoPath,
                     loaded |-> NoContent, resp |-> response]]
    /\ ecg' = ecg_after
    /\ UNCHANGED <<calc, req, resp, doppler_available, nan_cast, files, eeg>>

\* upload_ecg up to the statement before `ecg_data_global = ...`
BeginUpload ==
    /\ proc[Uploader].pc = "idle"
    /\ \E r \in EcgUploads("ecg-upload") :
        IF r.file = "ok" /\ ParseEcgCsv(r.csv, r.sampling_rate).stored
        THEN UploadStep("parsed", r, NoResponse, ecg)
        ELSE UploadStep("returned", r, UploadEcg(r, ecg).response, ecg)

InFlight == ParseEcgCsv(proc[Uploader].req.csv, proc[Uploader].req.sampling_rate)

\* ecg_data_global = {...}
StoreData ==
    /\ proc[Uploader].pc = "parsed"
    /\ UploadStep("data", proc[Uploader].req, NoResponse,
                  [ecg EXCEPT !.data = InFlight.cache.data])

\* theta_global = theta.tolist()
StoreTheta ==
    /\ proc[Uploader].pc = "data"
    /\ UploadStep("theta", proc[Uploader].req, NoResponse,
                  [ecg EXCEPT !.theta = InFlight.cache.theta])

\* sampling_rate_global = sampling_rate, and the rest of the request
StoreRate ==
    /\ proc[Uploader].pc = "theta"
    /\ UploadStep("returned", proc[Uploader].req,
                  UploadEcg(proc[Uploader].req, ecg).response,
                  [ecg EXCEPT !.rate = InFlight.cache.rate])

ReturnUpload ==
    /\ proc[Uploader].pc = "returned"
    /\ proc' = [proc EXCEPT ![Uploader] = IdleWorker]
    /\ UNCHANGED <<calc, req, resp, doppler_available, nan_cast, files, ecg, eeg>>

NextRace ==
    \/ BeginUpload
    \/ StoreData
    \/ StoreTheta
    \/ StoreRate
    \/ ReturnUpload
    \/ EcgPolarData
    \/ EcgStatistics
    \/ Respond

SpecRace == InitRace /\ [][NextRace]_vars

\* the caches that hold the leads, theta and rate of one upload, or none
CachesOfOneUpload ==
    {NoEcg} \cup
    {ParseEcgCsv(r.csv, r.sampling_rate).cache :
        r \in {u \in EcgUploads("ecg-upload") :
                  u.file = "ok" /\ ParseEcgCsv(u.csv, u.sampling_rate).stored}}

\* C28: a /polar-data or /statistics request concurrent with an upload is
\* answered from the leads, theta and sampling rate of one and the same
\* upload, never from a mix of two uploads.
C28_ReaderSeesOneUpload ==
    /\ req.endpoint = "ecg-polar-data" =>
        \E c \in CachesOfOneUpload :
            resp = GetPolarData(req.mode, req.current_time, c)
    /\ req.endpoint = "ecg-statistics" =>
        \E c \in CachesOfOneUpload : resp = GetEcgStatistics(c)

====
